---- MODULE Spec2Model ----
(***************************************************************************)
(* Model of lib/nosqldb-adapter/client.js (orcoos): the batched cursor     *)
(* OrcoosFindCursor with the shared prepared-statement cache, the table    *)
(* check OrcoosCollection._checkTableIsCreated with the operations that    *)
(* call it, and the binding table filled by _storeBinding.                 *)
(*                                                                         *)
(* JavaScript runs one task at a time; a task gives up control only at an  *)
(* await.  Every action below is one run of code between two awaits.       *)
(***************************************************************************)
EXTENDS Integers, Sequences, FiniteSets, TLC

\* ---------------------------------------------------------------- bounds
MaxDocs == 3         \* most documents one query result holds
MaxBatch == 2        \* most rows in one batch
MaxEmpty == 1        \* empty batches one result source may deliver
MaxFail == 1         \* store calls that fail in one behaviour
MaxCreate == 3       \* cursors constructed in one behaviour
MaxOps == 3          \* operations started on one cursor
MaxLimitArg == 2     \* largest maxLimit passed to a cursor
MaxCalls == 3        \* operations started on the collection
MaxStored == 3       \* _storeBinding calls on one bindings object
MaxIn == 3           \* longest array given to $in or $nin
MaxPrj == 2          \* most entries of one projection spec
MaxIdx == 2          \* most keys of one index spec

\* ------------------------------------------------------ program constants
MAX_BINDING_NAME == 1000

\* cursor objects alive at the same time, caller operations in progress at
\* the same time, and the statement texts they run
CursorIds == {1, 2}
TaskIds == {1, 2}
Statements == {"q1", "q2"}
\* statement texts of the UPDATE and DELETE operations
OpStatements == {"update", "updateReturning", "deleteReturning"}
CacheKeys == Statements \cup OpStatements
\* operations on one collection in progress at the same time
CallerIds == {1, 2}
NoHandle == -1

VARIABLES
    cursors,         \* OrcoosFindCursor objects
    source,          \* store side of each cursor's query result
    frames,          \* calls suspended at an await, and finished calls
    prepStmtCache,   \* OrcoosClient.prepStmtCache: statement -> handle
    clears,          \* number of prepStmtCache.clear() calls so far
    fails,           \* store calls that have failed so far
    created,         \* cursors constructed so far
    collection,      \* the OrcoosCollection object of one table
    lock,            \* OrcoosCollection._lock: the caller holding it, or 0
    table,           \* the table in the store
    callers,         \* operations on the collection and their table checks
    ddlIssued,       \* CREATE TABLE statements sent to the store
    ddlFailed,       \* CREATE TABLE statements that failed
    started,         \* operations started on the collection
    bindings,        \* the bindings object one compilation fills
    stored,          \* the _storeBinding calls made on it, with results
    call,            \* the last call of a compiler or marshalling function
    rows,            \* the rows of the table in the store
    many             \* the insertMany() in progress, and its result

cursorVars == <<cursors, source, frames, prepStmtCache, clears, created>>
tableVars == <<collection, lock, table, callers, ddlIssued, ddlFailed,
               started>>
bindVars == <<bindings, stored>>
opVars == <<call, rows, many>>
vars == <<cursorVars, fails, tableVars, bindVars, opVars>>

\* The frame slot Detached(c) holds the fetchBatch() that the async iterator
\* of cursor c starts without awaiting it.
Detached(c) == Cardinality(TaskIds) + c
FrameIds == TaskIds \cup {Detached(c) : c \in CursorIds}

NoCursor ==
    [exists |-> FALSE, id |-> 0, statement |-> "q1", hasBindings |-> FALSE,
     maxLimit |-> 0, documents |-> <<>>, isStarted |-> FALSE,
     isClosed |-> FALSE, gen |-> FALSE, createdAt |-> 0, hitAt |-> NoHandle,
     calls |-> 0, delivered |-> 0, ops |-> 0, shared |-> FALSE]

NoSource == [total |-> 0, sent |-> 0, empties |-> 0, done |-> FALSE]

IdleFrame ==
    [st |-> "idle", op |-> "none", cur |-> 0, n |-> 0, pc |-> "none",
     h |-> NoHandle,
     arr |-> <<>>, res |-> "none", val |-> 0, cause |-> "none"]

\* new OrcoosFindCursor(collection, statement, bindings, maxLimit)
OrcoosFindCursor(serial, s, b, k, ep) ==
    [NoCursor EXCEPT !.exists = TRUE, !.id = serial, !.statement = s,
                     !.hasBindings = b, !.maxLimit = k, !.createdAt = ep]

Range(lo, hi) == [i \in 1..(hi - lo + 1) |-> lo + i - 1]

\* ------------------------------------------------- OrcoosFindCursor, pure
\* The outcome of one run of a cursor method between two awaits: the cursor
\* object afterwards, and where the call stands (suspended at pc, or done).
Done(cr, res, val, cause) ==
    [cur |-> cr, st |-> "done", pc |-> "none", h |-> NoHandle, arr |-> <<>>,
     res |-> res, val |-> val, cause |-> cause]

Suspended(f, arr) ==
    [cur |-> f.cur, st |-> "run", pc |-> f.pc, h |-> f.h, arr |-> arr,
     res |-> "none", val |-> 0, cause |-> "none"]

\* a request sent to the store on behalf of cursor cr
StoreCall(cr) == [cr EXCEPT !.calls = @ + 1]

\* documents handed to the caller
Deliver(cr, n) == [cr EXCEPT !.delivered = @ + n]

\* close(): this._isClosed = true
close(cr) == [cr EXCEPT !.isClosed = TRUE]

\* fetchBatch() asking the store to prepare although the cache holds the
\* statement
fetchBatchAlwaysPrepares(cr, cache, ep, srcDone) ==
    IF cr.isClosed
    THEN [cur |-> cr, pc |-> "ret", h |-> NoHandle]
    ELSE IF ~cr.isStarted
    THEN [cur |-> StoreCall([cr EXCEPT !.isStarted = TRUE,
                                       !.hitAt = cache[cr.statement]]),
          pc |-> "prepare", h |-> ep]
    ELSE IF ~cr.gen
    THEN [cur |-> close(cr), pc |-> "ret", h |-> NoHandle]
    ELSE [cur |-> IF srcDone THEN cr ELSE StoreCall(cr), pc |-> "batch",
          h |-> NoHandle]


\* fetchBatch() from its entry to its first await, or to its return when it
\* does not await.  cache is prepStmtCache, ep the number of clears so far
\* (it stamps a handle prepared now), srcDone whether the batch iterator of
\* the cursor has already finished (its next() then sends nothing).
fetchBatch(cr, cache, ep, srcDone) ==
    IF cr.isClosed
    THEN [cur |-> cr, pc |-> "ret", h |-> NoHandle]
    ELSE IF ~cr.isStarted
    THEN LET c1 == [cr EXCEPT !.isStarted = TRUE,
                              !.hitAt = cache[cr.statement]]
         IN  IF cache[cr.statement] = NoHandle
             THEN [cur |-> StoreCall(c1), pc |-> "prepare", h |-> ep]
             ELSE IF cr.hasBindings
             THEN [cur |-> c1, pc |-> "copy", h |-> cache[cr.statement]]
             ELSE [cur |-> StoreCall(c1), pc |-> "open",
                   h |-> cache[cr.statement]]
    ELSE IF ~cr.gen
    THEN [cur |-> close(cr), pc |-> "ret", h |-> NoHandle]
    ELSE [cur |-> IF srcDone THEN cr ELSE StoreCall(cr), pc |-> "batch",
          h |-> NoHandle]

\* next() after its fetchBatch() returned: the loop condition, then shift
nextAfterFetch(cr) ==
    IF cr.documents # <<>>
    THEN Done(Deliver([cr EXCEPT !.documents = Tail(@)], 1), "doc",
              Head(cr.documents), "none")
    ELSE Done(cr, "null", 0, "none")

\* next(), and tryNext() which takes the same steps
next(cr, cache, ep, srcDone) ==
    IF cr.documents # <<>>
    THEN Done(Deliver([cr EXCEPT !.documents = Tail(@)], 1), "doc",
              Head(cr.documents), "none")
    ELSE LET f == fetchBatch(cr, cache, ep, srcDone)
         IN  IF f.pc = "ret" THEN nextAfterFetch(f.cur)
             ELSE Suspended(f, <<>>)

hasNextAfterFetch(cr) ==
    IF cr.documents # <<>> THEN Done(cr, "true", 0, "none")
    ELSE Done(cr, "false", 0, "none")

hasNext(cr, cache, ep, srcDone) ==
    IF cr.documents # <<>> THEN Done(cr, "true", 0, "none")
    ELSE LET f == fetchBatch(cr, cache, ep, srcDone)
         IN  IF f.pc = "ret" THEN hasNextAfterFetch(f.cur)
             ELSE Suspended(f, <<>>)

\* toArrayPass refusing a result of exactly maxLimit documents
toArrayPassOffByOne(cr, array, cache, ep, srcDone) ==
    IF Len(array) + Len(cr.documents) >= cr.maxLimit
    THEN Done(cr, "throw", 0, "limit")
    ELSE LET a2 == array \o cr.documents
             f == fetchBatch(cr, cache, ep, srcDone)
         IN  IF f.pc = "ret"
             THEN [Done(Deliver(f.cur, Len(a2)), "array", 0, "none")
                       EXCEPT !.arr = a2]
             ELSE Suspended(f, a2)

\* one pass of the while loop of toArray(), from its top to the await
toArrayPass(cr, array, cache, ep, srcDone) ==
    IF Len(array) + Len(cr.documents) > cr.maxLimit
    THEN Done(cr, "throw", 0, "limit")
    ELSE LET a2 == array \o cr.documents
             f == fetchBatch(cr, cache, ep, srcDone)
         IN  IF f.pc = "ret"
             THEN [Done(Deliver(f.cur, Len(a2)), "array", 0, "none")
                       EXCEPT !.arr = a2]
             ELSE Suspended(f, a2)

toArrayAfterFetch(cr, array, cache, ep, srcDone) ==
    IF cr.isClosed
    THEN [Done(Deliver(cr, Len(array)), "array", 0, "none")
              EXCEPT !.arr = array]
    ELSE toArrayPass(cr, array, cache, ep, srcDone)

\* the async iterator: what it does with the outcome of its await next()
iterAfterNext(r) ==
    IF r.st = "run" THEN r
    ELSE IF r.res = "doc"
    THEN [r EXCEPT !.st = "run", !.pc = "yield", !.res = "none"]
    ELSE Done(close(r.cur), "end", 0, "none")

\* the while loop of the async iterator, from its top
iterLoop(cr, cache, ep, srcDone) ==
    IF cr.isClosed THEN Done(cr, "end", 0, "none")
    ELSE iterAfterNext(next(cr, cache, ep, srcDone))

\* a method continues after the fetchBatch() it awaited has returned
AfterFetch(op, cr, array, cache, ep, srcDone) ==
    CASE op \in {"next", "tryNext"} -> nextAfterFetch(cr)
      [] op = "hasNext" -> hasNextAfterFetch(cr)
      [] op = "toArray" -> toArrayAfterFetch(cr, array, cache, ep, srcDone)
      [] op = "iterate" -> iterAfterNext(nextAfterFetch(cr))
      [] OTHER -> Done(cr, "ret", 0, "none")

\* a method ends because the fetchBatch() it awaited threw; nobody awaits
\* the fetchBatch() the iterator started, so its error reaches no caller
AfterThrow(op, cr, cause) ==
    CASE op = "iterate" -> Done(close(cr), "throw", 0, cause)
      [] op = "detached" -> Done(cr, "unhandled", 0, cause)
      [] OTHER -> Done(cr, "throw", 0, cause)

Begin(op, cr, cache, ep, srcDone) ==
    CASE op \in {"next", "tryNext"} -> next(cr, cache, ep, srcDone)
      [] op = "hasNext" -> hasNext(cr, cache, ep, srcDone)
      [] OTHER -> toArrayPass(cr, <<>>, cache, ep, srcDone)

\* ------------------------------------------------------- cursor, actions
Running(t) == frames[t].st = "run"
Busy(c) == \E t \in FrameIds : Running(t) /\ frames[t].cur = c
Consumed(c) == \E t \in TaskIds : Running(t) /\ frames[t].cur = c

\* n numbers the operations started on the cursor object
FrameOf(t, op, c, r) ==
    [st |-> r.st, op |-> op, cur |-> c,
     n |-> IF Running(t) THEN frames[t].n ELSE r.cur.ops,
     pc |-> r.pc, h |-> r.h,
     arr |-> r.arr, res |-> r.res, val |-> r.val, cause |-> r.cause]

\* find() / nosqlQuery() return a new cursor over a query result of n
\* documents; the slot's finished calls are forgotten with the old object
NewCursor(c, s, b, k, n) ==
    /\ created < MaxCreate
    /\ ~Busy(c)
    /\ created' = created + 1
    /\ cursors' = [cursors EXCEPT ![c] =
                      OrcoosFindCursor(created + 1, s, b, k, clears)]
    /\ source' = [source EXCEPT ![c] = [NoSource EXCEPT !.total = n]]
    /\ frames' = [t \in FrameIds |->
                     IF frames[t].cur = c THEN IdleFrame ELSE frames[t]]
    /\ UNCHANGED <<prepStmtCache, clears, fails, tableVars, bindVars, opVars>>

Entered(c) ==
    [cursors[c] EXCEPT !.ops = @ + 1, !.shared = @ \/ Consumed(c)]

\* a caller calls next(), tryNext(), hasNext() or toArray()
StartPull(t, c, op) ==
    /\ ~Running(t)
    /\ cursors[c].exists
    /\ cursors[c].ops < MaxOps
    /\ LET r == Begin(op, Entered(c), prepStmtCache, clears, source[c].done)
       IN  /\ frames' = [frames EXCEPT ![t] = FrameOf(t, op, c, r)]
           /\ cursors' = [cursors EXCEPT ![c] = r.cur]
    /\ UNCHANGED <<source, prepStmtCache, clears, fails, created, tableVars, bindVars, opVars>>

\* a caller starts for await (const doc of cursor), forEach() or map()
StartIterate(t, c) ==
    /\ ~Running(t)
    /\ cursors[c].exists
    /\ cursors[c].ops < MaxOps
    /\ LET cr == Entered(c)
           d == fetchBatch(cr, prepStmtCache, clears, source[c].done)
       IN  IF cr.isClosed
           THEN /\ frames' = [frames EXCEPT ![t] =
                      FrameOf(t, "iterate", c, Done(cr, "end", 0, "none"))]
                /\ cursors' = [cursors EXCEPT ![c] = cr]
           ELSE IF ~cr.isStarted
           THEN LET r == iterLoop(d.cur, prepStmtCache, clears,
                                  source[c].done)
                IN  /\ frames' = [frames EXCEPT
                          ![t] = FrameOf(t, "iterate", c, r),
                          ![Detached(c)] = FrameOf(Detached(c), "detached",
                                                   c, Suspended(d, <<>>))]
                    /\ cursors' = [cursors EXCEPT ![c] = r.cur]
           ELSE LET r == iterLoop(cr, prepStmtCache, clears, source[c].done)
                IN  /\ frames' = [frames EXCEPT
                          ![t] = FrameOf(t, "iterate", c, r)]
                    /\ cursors' = [cursors EXCEPT ![c] = r.cur]
    /\ UNCHANGED <<source, prepStmtCache, clears, fails, created, tableVars, bindVars, opVars>>

Resumable(t, pc) == t \in FrameIds /\ Running(t) /\ frames[t].pc = pc

Continue(t, r) ==
    /\ frames' = [frames EXCEPT ![t] = FrameOf(t, frames[t].op,
                                               frames[t].cur, r)]
    /\ cursors' = [cursors EXCEPT ![frames[t].cur] = r.cur]

\* the consumer of the iterator asks for the next document
IterContinue(t) ==
    /\ Resumable(t, "yield")
    /\ LET c == frames[t].cur
       IN  Continue(t, iterLoop(cursors[c], prepStmtCache, clears,
                                source[c].done))
    /\ UNCHANGED <<source, prepStmtCache, clears, fails, created, tableVars, bindVars, opVars>>

\* the consumer leaves the loop early, with break or because its loop body
\* threw: the finally clause closes the cursor
IterBreak(t) ==
    /\ Resumable(t, "yield")
    /\ Continue(t, Done(close(cursors[frames[t].cur]), "end", 0, "break"))
    /\ UNCHANGED <<source, prepStmtCache, clears, fails, created, tableVars, bindVars, opVars>>

\* a caller calls close()
Close(c) ==
    /\ cursors[c].exists
    /\ cursors[c].ops < MaxOps
    /\ cursors' = [cursors EXCEPT ![c] = close(Entered(c))]
    /\ UNCHANGED <<source, frames, prepStmtCache, clears, fails, created,
                   tableVars, bindVars, opVars>>

\* after await client.prepare(): cache the handle, then copy or execute
PrepareOk(t) ==
    /\ Resumable(t, "prepare")
    /\ LET cr == cursors[frames[t].cur]
       IN  /\ prepStmtCache' = [prepStmtCache EXCEPT
                                   ![cr.statement] = frames[t].h]
           /\ IF cr.hasBindings
              THEN Continue(t, Suspended([cur |-> cr, pc |-> "copy",
                                          h |-> frames[t].h], frames[t].arr))
              ELSE Continue(t, Suspended([cur |-> StoreCall(cr),
                                          pc |-> "open", h |-> frames[t].h],
                                         frames[t].arr))
    /\ UNCHANGED <<source, clears, fails, created, tableVars, bindVars, opVars>>

\* client.prepare() rejects: fetchBatch() throws
PrepareFail(t) ==
    /\ Resumable(t, "prepare")
    /\ fails < MaxFail
    /\ fails' = fails + 1
    /\ Continue(t, AfterThrow(frames[t].op, cursors[frames[t].cur],
                              "prepare"))
    /\ UNCHANGED <<source, prepStmtCache, clears, created, tableVars, bindVars, opVars>>

\* a copy that is the handle it was made from
copyStatementSame(h) == h

\* prepStmt.copyStatement(): a new handle, no handle that prepare() returned
copyStatement(h) == 0 - (h + 2)

\* after await prepStmt.copyStatement(): set the bindings on the handle h of
\* the frame, now the copy, then execute it
CopyDone(t) ==
    /\ Resumable(t, "copy")
    /\ Continue(t, Suspended([cur |-> StoreCall(cursors[frames[t].cur]),
                              pc |-> "open",
                              h |-> copyStatement(frames[t].h)],
                             frames[t].arr))
    /\ UNCHANGED <<source, prepStmtCache, clears, fails, created, tableVars, bindVars, opVars>>

\* after await client.queryIterable(): keep the iterator, ask for a batch
OpenOk(t) ==
    /\ Resumable(t, "open")
    /\ LET c == frames[t].cur
           c1 == [cursors[c] EXCEPT !.gen = TRUE]
       IN  Continue(t, Suspended(
               [cur |-> IF source[c].done THEN c1 ELSE StoreCall(c1),
                pc |-> "batch", h |-> NoHandle], frames[t].arr))
    /\ UNCHANGED <<source, prepStmtCache, clears, fails, created, tableVars, bindVars, opVars>>

\* client.queryIterable() fails: clear the whole cache, rethrow
OpenFail(t) ==
    /\ Resumable(t, "open")
    /\ fails < MaxFail
    /\ fails' = fails + 1
    /\ prepStmtCache' = [s \in CacheKeys |-> NoHandle]
    /\ clears' = clears + 1
    /\ Continue(t, AfterThrow(frames[t].op, cursors[frames[t].cur],
                              "execute"))
    /\ UNCHANGED <<source, created, tableVars, bindVars, opVars>>

\* after await this._gen.next(): a batch of k rows replaces the buffer
BatchRows(t, k) ==
    /\ Resumable(t, "batch")
    /\ LET c == frames[t].cur
           src == source[c]
           c1 == [cursors[c] EXCEPT
                      !.documents = Range(src.sent + 1, src.sent + k)]
       IN  /\ ~src.done
           /\ k <= src.total - src.sent
           /\ k = 0 => src.empties < MaxEmpty
           /\ source' = [source EXCEPT ![c] =
                  [src EXCEPT !.sent = @ + k,
                              !.empties = IF k = 0 THEN @ + 1 ELSE @]]
           /\ Continue(t, AfterFetch(frames[t].op, c1, frames[t].arr,
                                     prepStmtCache, clears, FALSE))
    /\ UNCHANGED <<prepStmtCache, clears, fails, created, tableVars, bindVars, opVars>>

\* this._gen.next() reports the end of the result: close()
BatchEnd(t) ==
    /\ Resumable(t, "batch")
    /\ LET c == frames[t].cur
       IN  /\ source[c].done \/ source[c].sent = source[c].total
           /\ source' = [source EXCEPT ![c].done = TRUE]
           /\ Continue(t, AfterFetch(frames[t].op, close(cursors[c]),
                                     frames[t].arr, prepStmtCache, clears,
                                     TRUE))
    /\ UNCHANGED <<prepStmtCache, clears, fails, created, tableVars, bindVars, opVars>>

\* this._gen.next() rejects: fetchBatch() throws, the iterator is finished
BatchFail(t) ==
    /\ Resumable(t, "batch")
    /\ ~source[frames[t].cur].done
    /\ fails < MaxFail
    /\ fails' = fails + 1
    /\ source' = [source EXCEPT ![frames[t].cur].done = TRUE]
    /\ Continue(t, AfterThrow(frames[t].op, cursors[frames[t].cur],
                              "batch"))
    /\ UNCHANGED <<prepStmtCache, clears, created, tableVars, bindVars, opVars>>

\* the LRU cache drops an entry (ttl reached, or max entries exceeded)
Evict(s) ==
    /\ prepStmtCache[s] # NoHandle
    /\ prepStmtCache' = [prepStmtCache EXCEPT ![s] = NoHandle]
    /\ UNCHANGED <<cursors, source, frames, clears, fails, created, tableVars, bindVars, opVars>>


\* ------------------------------------------------- bindings, _storeBinding
\* A name is the sequence of its characters.  A value is the text
\* JSON.stringify gives for it; the values JavaScript takes for false in a
\* condition are 0, false, the empty string and null.
BaseNames == {<<"a">>, <<"a", "2">>, <<"a", ".", "b">>, <<"a", "_", "b">>}
Values == {"0", "5", "false", "\"\"", "\"x\""}
Falsy(v) == v \in {"0", "false", "\"\"", "null"}

\* String.prototype.replace('.', '_'): the first '.' only
RECURSIVE ReplaceFirstDot(_)
ReplaceFirstDot(name) ==
    IF name = <<>> THEN <<>>
    ELSE IF Head(name) = "." THEN <<"_">> \o Tail(name)
    ELSE <<Head(name)>> \o ReplaceFirstDot(Tail(name))

Digit(d) == CASE d = 0 -> "0" [] d = 1 -> "1" [] d = 2 -> "2" [] d = 3 -> "3"
              [] d = 4 -> "4" [] d = 5 -> "5" [] d = 6 -> "6" [] d = 7 -> "7"
              [] d = 8 -> "8" [] OTHER -> "9"

\* name + i: the decimal digits of i
RECURSIVE Digits(_)
Digits(i) ==
    IF i < 10 THEN <<Digit(i)>> ELSE Digits(i \div 10) \o <<Digit(i % 10)>>

\* bindings[name]: the value of the property, "undefined" if there is none
Has(entries, name) == \E k \in 1..Len(entries) : entries[k].name = name
Get(entries, name) ==
    IF Has(entries, name)
    THEN entries[CHOOSE k \in 1..Len(entries) : entries[k].name = name].value
    ELSE "undefined"

\* bindings[name] = value: a new property goes last, an old one keeps its place
Set(entries, name, value) ==
    IF Has(entries, name)
    THEN [k \in 1..Len(entries) |->
             IF entries[k].name = name THEN [name |-> name, value |-> value]
             ELSE entries[k]]
    ELSE Append(entries, [name |-> name, value |-> value])

\* if (!bindings[name]): there is no property name, or its value is falsy
Free(entries, name) ==
    ~Has(entries, name) \/ Falsy(Get(entries, name))

\* _computeLiteral(value)
computeLiteral(value) == IF Falsy(value) THEN "NULL" ELSE value

\* _storeBinding(bindings, name, value): the bindings afterwards, the string
\* returned, and whether the call threw
storeBinding(b, name, value) ==
    IF b.isNull
    THEN [bindings |-> b, ret |-> <<computeLiteral(value)>>, threw |-> FALSE]
    ELSE LET n == <<"$">> \o ReplaceFirstDot(name)
             free == {i \in 2..(MAX_BINDING_NAME - 1) :
                         Free(b.entries, n \o Digits(i))}
             first == CHOOSE i \in free : \A j \in free : i <= j
         IN  IF Free(b.entries, n)
             THEN [bindings |-> [b EXCEPT !.entries = Set(@, n, value)],
                   ret |-> n, threw |-> FALSE]
             ELSE IF free # {}
             THEN [bindings |-> [b EXCEPT !.entries =
                                    Set(@, n \o Digits(first), value)],
                   ret |-> n \o Digits(first), threw |-> FALSE]
             ELSE [bindings |-> b, ret |-> <<>>, threw |-> TRUE]

\* a compiler step stores a value under a base name
StoreBinding(name, value) ==
    /\ Len(stored) < MaxStored
    /\ LET r == storeBinding(bindings, name, value)
       IN  /\ bindings' = r.bindings
           /\ stored' = Append(stored, [base |-> name, value |-> value,
                                        ret |-> r.ret, threw |-> r.threw])
    /\ UNCHANGED <<cursorVars, fails, tableVars, opVars>>

\* ------------------------------------------------ values and query text
\* A JavaScript value is a node: a scalar carries its JSON text in val, an
\* array its elements and an object its properties, in order, in items;
\* prop is the name the node has in the object that holds it.  A piece of
\* statement text is a sequence of chunks, and + is \o.
Node(kind, val, items) ==
    [prop |-> <<>>, kind |-> kind, val |-> val, items |-> items]
Undefined == Node("undefined", "undefined", <<>>)
Null == Node("null", "null", <<>>)
Scalar(v) == Node("scalar", v, <<>>)
Arr(items) == Node("array", "", items)
Obj(items) == Node("object", "", items)
At(prop, n) == [n EXCEPT !.prop = prop]

\* the JSON text of new Date(...).toISOString(), of '' + date, of the 24
\* hex digits of an ObjectId, and of the field reference '$x'
IsoText == "\"2020-01-02T03:04:05.000Z\""
DateText == "\"Thu Jan 02 2020 03:04:05 GMT+0000\""
HexText == "\"0123456789abcdef01234567\""
RefText == "\"$x\""
StringValues == {"\"\"", "\"x\"", IsoText, DateText, HexText, RefText}
NumberValues == {"0", "5"}

\* if (v): everything but undefined, null, 0, false and ''
Truthy(n) ==
    \/ n.kind \in {"array", "object", "date", "objectId"}
    \/ n.kind = "scalar" /\ ~Falsy(n.val)

\* v instanceof Object
IsObject(n) == n.kind \in {"array", "object", "date", "objectId"}

\* typeof v === 'string', typeof v === 'number'
IsString(n) == n.kind = "scalar" /\ n.val \in StringValues
IsNumber(n) == n.kind = "scalar" /\ n.val \in NumberValues

\* v[p]: the property p of an object, undefined if there is none
HasProp(n, p) ==
    n.kind = "object" /\ \E k \in 1..Len(n.items) : n.items[k].prop = p
Prop(n, p) ==
    IF HasProp(n, p)
    THEN n.items[CHOOSE k \in 1..Len(n.items) : n.items[k].prop = p]
    ELSE Undefined

\* '' + v
ToStr(n) ==
    IF IsString(n) \/ n.kind = "objectId" THEN n.val
    ELSE IF n.kind = "scalar" THEN "\"" \o n.val \o "\""
    ELSE "\"[object Object]\""

\* Then(x, F) is F(x), the value x being computed once before F uses it
Then(x, F(_)) == CHOOSE y \in {F(v) : v \in {x}} : TRUE

RECURSIVE Join(_, _)
Join(parts, sep) ==
    IF parts = <<>> THEN <<>>
    ELSE IF Len(parts) = 1 THEN Head(parts)
    ELSE Head(parts) \o <<sep>> \o Join(Tail(parts), sep)

\* what a compiler function returns or throws, and the bindings afterwards
Ok(text, b) == [threw |-> FALSE, err |-> "none", text |-> text, b |-> b]
Throw(err, b) == [threw |-> TRUE, err |-> err, text |-> <<>>, b |-> b]

T == "$t"
KVID == "kvid"
P_id == <<"_", "i", "d">>
P_or == <<"$", "o", "r">>
P_and == <<"$", "a", "n", "d">>
P_not == <<"$", "n", "o", "t">>
P_nor == <<"$", "n", "o", "r">>
P_in == <<"$", "i", "n">>
P_nin == <<"$", "n", "i", "n">>
P_exists == <<"$", "e", "x", "i", "s", "t", "s">>
P_eq == <<"$", "e", "q">>
P_gt == <<"$", "g", "t">>

\* _isPositiveInteger(str) for a path segment
IsDigit(c) == c \in {"0", "1", "2", "3", "4", "5", "6", "7", "8", "9"}
isPositiveInteger(seg) ==
    /\ seg # <<>>
    /\ \A k \in 1..Len(seg) : IsDigit(seg[k])
    /\ Len(seg) = 1 \/ Head(seg) # "0"

\* prop.split('.')
RECURSIVE Split(_, _)
Split(name, cur) ==
    IF name = <<>> THEN <<cur>>
    ELSE IF Head(name) = "." THEN <<cur>> \o Split(Tail(name), <<>>)
    ELSE Split(Tail(name), Append(cur, Head(name)))

RECURSIVE DbPath(_)
DbPath(segs) ==
    IF segs = <<>> THEN <<>>
    ELSE (IF isPositiveInteger(Head(segs))
          THEN <<"[">> \o Head(segs) \o <<"]">>
          ELSE <<".\"">> \o Head(segs) \o <<"\"">>) \o DbPath(Tail(segs))

\* _computeDbProp(prop)
computeDbProp(prop, coll) ==
    IF Len(prop) >= 3 /\ SubSeq(prop, 1, 3) = P_id
    THEN IF ~coll.hasCompositeKeys THEN <<T, ".", KVID>>
         ELSE <<T, ".">> \o SubSeq(prop, 4, Len(prop))
    ELSE <<T>> \o DbPath(Split(prop, <<>>)) \o <<"[]">>

\* ----------------------------------------------- filter compiler, WHERE
\* The collection as the compilers read it: _hasCompositeKeys and
\* _primaryKeyList.
Coll(composite) ==
    [hasCompositeKeys |-> composite,
     primaryKeyList |-> IF composite THEN << <<"a">>, <<"b">> >>
                        ELSE << <<KVID>> >>]

\* _primaryKeyList.filter(v => _id[v]).map(v => T + '.' + v + ' = ' +
\* _storeBinding(bindings, 'id_' + v, _id[v])): the terms, in key order
RECURSIVE WherePkTerms(_, _, _)
WherePkTerms(keys, id, b) ==
    IF keys = <<>> THEN [parts |-> <<>>, b |-> b]
    ELSE LET v == Head(keys)
             f == Prop(id, v)
         IN  IF ~Truthy(f) THEN WherePkTerms(Tail(keys), id, b)
             ELSE Then(storeBinding(b, <<"i", "d", "_">> \o v, f.val),
                       LAMBDA r :
                  Then(WherePkTerms(Tail(keys), id, r.bindings),
                       LAMBDA rest :
                       [parts |-> << <<T, ".">> \o v \o <<"=">> \o r.ret >>
                                   \o rest.parts,
                        b |-> rest.b]))

\* _computeWherePk(bindings, _id)
computeWherePk(b, id, coll) ==
    IF ~coll.hasCompositeKeys
    THEN Then(storeBinding(b, <<"i", "d">>, ToStr(id)), LAMBDA r :
              Ok(<<T, ".", KVID, "=">> \o r.ret, r.bindings))
    ELSE Then(WherePkTerms(coll.primaryKeyList, id, b), LAMBDA r :
              Ok(Join(r.parts, "AND"), r.b))

\* (!propValue) instanceof Array: a boolean is never an Array
NotValueInstanceofArray(v) == FALSE

\* propValue.length of an operand: an array has one, a number or a plain
\* object has none and the loop over it runs no round
Operands(e) == IF e.kind = "array" THEN e.items ELSE <<>>

CompareOps ==
    [k \in {P_gt, P_eq} |-> IF k = P_gt THEN ">" ELSE "="]

\* the loop of $in and $nin over the array (i counts from 0 in the source)
RECURSIVE InList(_, _, _, _, _, _, _)
InList(arr, k, inRes, containsNull, inValCount, b, prop) ==
    IF k > Len(arr)
    THEN [inRes |-> inRes \o <<")">>, containsNull |-> containsNull,
          inValCount |-> inValCount, b |-> b]
    ELSE IF arr[k].kind = "null"
    THEN InList(arr, k + 1, inRes, TRUE, inValCount, b, prop)
    ELSE LET sep == IF (k - 1) > (IF containsNull THEN 1 ELSE 0)
                    THEN <<",">> ELSE <<>>
         IN  Then(storeBinding(b, prop, arr[k].val), LAMBDA r :
                  InList(arr, k + 1, inRes \o sep \o r.ret, containsNull,
                         inValCount + 1, r.bindings, prop))

\* case "$in": case "$nin": what is appended to lres
InExp(prop, op, arr, b, coll) ==
    IF arr.kind = "array" /\ Len(arr.items) > 0
    THEN Then(InList(arr.items, 1, <<"IN", "(">>, FALSE, 0, b, prop),
              LAMBDA l :
         LET kvProp == computeDbProp(prop, coll)
             list == IF l.inValCount > 0
                     THEN (IF op = P_in THEN <<"(">> ELSE <<"NOT", "(">>)
                          \o kvProp \o l.inRes \o <<"OR", "EXISTS", "(">>
                          \o kvProp \o <<"[", "$element">> \o l.inRes
                          \o <<"]", ")">>
                     ELSE <<>>
             null == IF l.containsNull
                     THEN (IF op = P_in THEN <<"OR", "NOT", "EXISTS">>
                           ELSE <<"OR", "EXISTS">>) \o kvProp
                     ELSE <<>>
         IN  Ok(list \o null \o <<")">>, l.b))
    ELSE Ok(<<>>, b)

\* one round of the loop over the operators of { prop: { $op: value } }
CompOp(prop, o, b, coll) ==
    IF o.prop \in DOMAIN CompareOps
    THEN Then(storeBinding(b, prop, o.val), LAMBDA r :
              Ok(<<"(">> \o computeDbProp(prop, coll)
                 \o <<CompareOps[o.prop]>> \o r.ret \o <<")">>,
                 r.bindings))
    ELSE IF o.prop = P_exists
    THEN Ok(<<"(">> \o (IF o.val \in {"false", "0", "\"\""} THEN <<"NOT">>
                        ELSE <<>>)
            \o <<"EXISTS", T, ".\"">> \o prop \o <<"\"", ")">>, b)
    ELSE IF o.prop \in {P_in, P_nin}
    THEN InExp(prop, o.prop, o, b, coll)
    ELSE Throw("Unexpected property value for a comparison expression", b)

RECURSIVE CompOps(_, _, _, _, _, _)
CompOps(prop, ops, j, lres, b, coll) ==
    IF j > Len(ops) THEN Ok(lres, b)
    ELSE LET lres1 == IF lres # <<>> THEN lres \o <<"AND">> ELSE lres
         IN  Then(CompOp(prop, ops[j], b, coll), LAMBDA r :
                  IF r.threw THEN r
                  ELSE CompOps(prop, ops, j + 1, lres1 \o r.text, r.b,
                               coll))

\* prop == '_id' with a string, number, Date or ObjectId value
RECURSIVE IdTerms(_, _, _)
IdTerms(keys, v, b) ==
    IF keys = <<>> THEN [parts |-> <<>>, b |-> b]
    ELSE Then(storeBinding(b, P_id \o <<"_">> \o Head(keys), v),
              LAMBDA r :
         Then(IdTerms(Tail(keys), v, r.bindings), LAMBDA rest :
              [parts |-> << <<"t", ".">> \o Head(keys) \o <<"=">>
                            \o r.ret >> \o rest.parts,
               b |-> rest.b]))

RECURSIVE computeCompExp(_, _, _)
RECURSIVE CompChildren(_, _, _, _, _, _)
RECURSIVE CompEntries(_, _, _, _, _)

\* $or, $and, $nor, $not: the compiled operands between open and ')'
CompGroup(e, open, sep, b, coll) ==
    Then(CompChildren(Operands(e), 1, open, sep, b, coll), LAMBDA r :
         IF r.threw THEN r ELSE Ok(r.text \o <<")">>, r.b))

\* one round of the loop over the properties of compObj
CompEntry(e, b, coll) ==
    IF e.prop # <<>> /\ Head(e.prop) = "$"
    THEN IF e.prop = P_or
         THEN IF NotValueInstanceofArray(e)
              THEN Throw("$or must be an array", b)
              ELSE CompGroup(e, <<"(">>, "OR", b, coll)
         ELSE IF e.prop = P_and
         THEN IF NotValueInstanceofArray(e)
              THEN Throw("$and must be an array", b)
              ELSE CompGroup(e, <<"(">>, "AND", b, coll)
         ELSE IF e.prop = P_not
         THEN IF e.kind = "array"
              THEN CompGroup(e, <<"NOT", "(">>, "AND", b, coll)
              ELSE Then(computeCompExp(e, b, coll), LAMBDA r :
                        IF r.threw THEN r
                        ELSE Ok(<<"NOT", "(">> \o r.text \o <<")">>, r.b))
         ELSE IF e.prop = P_nor
         THEN IF NotValueInstanceofArray(e)
              THEN Throw("$nor must be an array", b)
              ELSE CompGroup(e, <<"NOT", "(">>, "OR", b, coll)
         ELSE Throw("Unknown top level operator", b)
    ELSE IF IsObject(e) /\ Len(e.items) > 0
    THEN IF e.kind = "object"
         THEN CompOps(e.prop, e.items, 1, <<>>, b, coll)
         ELSE Throw("Unexpected property value for a comparison expression",
                    b)
    ELSE IF IsString(e) \/ IsNumber(e) \/ e.kind \in {"date", "objectId"}
    THEN IF e.prop = P_id
         THEN IF coll.hasCompositeKeys
              THEN Then(IdTerms(coll.primaryKeyList, e.val, b), LAMBDA r :
                        Ok(<<"(">> \o Join(r.parts, "AND") \o <<")">>, r.b))
              ELSE Then(storeBinding(b, e.prop, e.val), LAMBDA r :
                        Ok(<<"(", "t", ".", KVID, "=">> \o r.ret
                           \o <<")">>, r.bindings))
         ELSE Then(storeBinding(b, e.prop, e.val), LAMBDA r :
                   Ok(<<"(">> \o computeDbProp(e.prop, coll) \o <<"=any">>
                      \o r.ret \o <<")">>, r.bindings))
    ELSE Throw("ISE prop", b)

CompChildren(ch, i, res, sep, b, coll) ==
    IF i > Len(ch) THEN Ok(res, b)
    ELSE LET res1 == IF i > 1 THEN res \o <<sep>> ELSE res
         IN  Then(computeCompExp(ch[i], b, coll), LAMBDA r :
                  IF r.threw THEN r
                  ELSE CompChildren(ch, i + 1, res1 \o r.text, sep, r.b,
                                    coll))

CompEntries(items, i, res, b, coll) ==
    IF i > Len(items) THEN Ok(res, b)
    ELSE LET res1 == IF res # <<>> THEN res \o <<"AND">> ELSE res
         IN  Then(CompEntry(items[i], b, coll), LAMBDA r :
                  IF r.threw THEN r
                  ELSE CompEntries(items, i + 1, res1 \o r.text, r.b,
                                   coll))

\* _computeCompExp(compObj, bindings)
computeCompExp(compObj, b, coll) ==
    IF compObj.kind = "objectId" THEN Ok(<<compObj.val>>, b)
    ELSE Then(CompEntries(compObj.items, 1, <<>>, b, coll), LAMBDA r :
              IF r.threw \/ r.text = <<>> THEN r
              ELSE Ok(<<"(">> \o r.text \o <<")">>, r.b))

\* _computeCompStartExp(compObj, bindings)
computeCompStartExp(compObj, b, coll) ==
    IF ~Truthy(compObj) \/ ~IsObject(compObj)
    THEN Throw("Query filter must be a plain object or ObjectId", b)
    ELSE computeCompExp(compObj, b, coll)

\* _isEmptyObject(obj)
isEmptyObject(n) == n.kind \in {"object", "array"} /\ n.items = <<>>

\* _computeWhere(filter, bindings)
computeWhere(filter, b, coll) ==
    IF ~Truthy(filter) \/ isEmptyObject(filter) THEN Ok(<<>>, b)
    ELSE IF ~IsObject(filter)
    THEN Throw("Unexpected input value for where expression", b)
    ELSE LET id == Prop(filter, P_id)
         IN  IF Truthy(id) /\ (IsString(id) \/ IsObject(id))
             THEN Then(computeWherePk(b, id, coll), LAMBDA whereExp :
                       IF Len(whereExp.text) > 0
                       THEN Then(computeWherePk(whereExp.b, id, coll),
                                 LAMBDA again :
                                 Ok(<<"WHERE", "(">> \o again.text
                                    \o <<")">>, again.b))
                       ELSE Ok(<<>>, whereExp.b))
             ELSE Then(computeCompStartExp(filter, b, coll), LAMBDA cond :
                       IF cond.threw \/ cond.text = <<>> THEN cond
                       ELSE Ok(<<"WHERE">> \o cond.text, cond.b))


\* ------------------------------------------------ update compiler, UPDATE
P_set == <<"$", "s", "e", "t">>
P_unset == <<"$", "u", "n", "s", "e", "t">>
P_currentDate == <<"$", "c", "u", "r", "r", "e", "n", "t", "D", "a", "t", "e">>
P_inc == <<"$", "i", "n", "c">>
P_min == <<"$", "m", "i", "n">>
P_max == <<"$", "m", "a", "x">>
P_mul == <<"$", "m", "u", "l">>
P_rename == <<"$", "r", "e", "n", "a", "m", "e">>
UpdateOperators ==
    {P_set, P_unset, P_currentDate, P_inc, P_min, P_max, P_mul, P_rename}

\* _computeLiteral(value) of a scalar or null
Literal(n) == IF ~Truthy(n) THEN <<"NULL">> ELSE <<n.val>>

\* the characters of a string value: 'x' for "x"
Unquote(v) ==
    IF v = "\"x\"" THEN <<"x">>
    ELSE IF v = "\"\"" THEN <<>>
    ELSE IF v = RefText THEN <<"$", "x">>
    ELSE <<v>>

\* prop.split('.').reduceRight((acc, cur) => '{"' + cur + '": ' + acc + '}',
\* value)
RECURSIVE PutProp(_, _)
PutProp(segs, value) ==
    IF segs = <<>> THEN value
    ELSE <<"{\"">> \o Head(segs) \o <<"\":">> \o PutProp(Tail(segs), value)
         \o <<"}">>

\* _computeUpdateSetPutProp(prop, value)
computeUpdateSetPutProp(prop, value) == PutProp(Split(prop, <<>>), value)

\* prop.substring(0, prop.lastIndexOf('.'))
BeforeLastDot(prop) ==
    LET dots == {k \in 1..Len(prop) : prop[k] = "."}
    IN  IF dots = {} THEN <<>>
        ELSE SubSeq(prop, 1, (CHOOSE k \in dots : \A j \in dots : j <= k) - 1)

\* _computeUpdateRenamePutProp(prop, renamedProp, value)
computeUpdateRenamePutProp(prop, renamedProp, value, coll) ==
    computeDbProp(BeforeLastDot(prop), coll)
        \o computeUpdateSetPutProp(renamedProp, value)

\* what one field of one operator appends to updateClause
UpdateTerm(key, f, coll) ==
    LET p == computeDbProp(f.prop, coll)
        lit == Literal(f)
    IN  IF key = P_set
        THEN <<",", "PUT", T>> \o computeUpdateSetPutProp(f.prop, lit)
        ELSE IF key = P_unset THEN <<",", "REMOVE">> \o p
        ELSE IF key = P_currentDate
        THEN <<",", "SET">> \o p
             \o <<"=", "CAST", "(", "current_time()", "AS", "String", ")">>
        ELSE IF key = P_inc
        THEN <<",", "SET">> \o p \o <<"=">> \o p \o <<"+">> \o lit
        ELSE IF key = P_min
        THEN <<",", "SET">> \o p \o <<"=", "CASE", "WHEN">> \o lit \o <<"<">>
             \o p \o <<"THEN">> \o lit \o <<"ELSE">> \o p \o <<"END">>
        ELSE IF key = P_max
        THEN <<",", "SET">> \o p \o <<"=", "CASE", "WHEN">> \o lit \o <<">">>
             \o p \o <<"THEN">> \o lit \o <<"ELSE">> \o p \o <<"END">>
        ELSE IF key = P_mul
        THEN <<",", "SET">> \o p \o <<"=">> \o p \o <<"*">> \o lit
        ELSE <<",", "PUT">>
             \o computeUpdateRenamePutProp(f.prop, Unquote(f.val), p, coll)
             \o <<",", "REMOVE">> \o p

RECURSIVE UpdateTerms(_, _, _)
UpdateTerms(key, fields, coll) ==
    IF fields = <<>> THEN <<>>
    ELSE UpdateTerm(key, Head(fields), coll)
         \o UpdateTerms(key, Tail(fields), coll)

\* the loop of _computeUpdateClause over the keys of update
RECURSIVE UpdateKeys(_, _, _, _)
UpdateKeys(keys, k, updateClause, coll) ==
    IF k > Len(keys)
    THEN [threw |-> FALSE, key |-> <<>>, text |-> updateClause]
    ELSE IF keys[k].prop \in UpdateOperators /\ IsObject(keys[k])
    THEN UpdateKeys(keys, k + 1,
                    updateClause \o UpdateTerms(keys[k].prop, keys[k].items,
                                                coll), coll)
    ELSE [threw |-> TRUE, key |-> keys[k].prop, text |-> <<>>]

\* _computeUpdateClause(update): the clause, or the key of the thrown
\* "Operator '<key>' not known."
computeUpdateClause(update, coll) ==
    LET r == UpdateKeys(update.items, 1, <<>>, coll)
    IN  IF ~r.threw /\ r.text # <<>> /\ Head(r.text) = ","
        THEN [r EXCEPT !.text = Tail(r.text)]
        ELSE r

\* -------------------------------------------- projection compiler, SELECT
\* projection[prop] == 1 || == true, and == 0 || == false
IsOne(n) == n.kind = "scalar" /\ n.val \in {"1", "true"}
IsZero(n) == n.kind = "scalar" /\ n.val \in {"0", "false", "\"\""}

\* prjObj[prop] = value unless it is set already (_computePrjObjDeep for
\* a path without dots)
PrjSet(prjObj, prop, n) ==
    IF \E k \in 1..Len(prjObj) : prjObj[k].prop = prop THEN prjObj
    ELSE Append(prjObj, At(prop, n))

\* the first loop of _conputeProjection: prjType and prjObj at the end, or
\* the error thrown
RECURSIVE PrjScan(_, _, _, _)
PrjScan(items, k, prjType, prjObj) ==
    IF k > Len(items)
    THEN [threw |-> FALSE, err |-> "none", prjType |-> prjType,
          prjObj |-> prjObj]
    ELSE LET e == items[k]
         IN  IF e.prop = P_id THEN PrjScan(items, k + 1, prjType, prjObj)
             ELSE IF IsOne(e)
             THEN IF prjType = -1
                  THEN [threw |-> TRUE,
                        err |-> "Projection cannot be both inclusive and exclusive",
                        prjType |-> prjType, prjObj |-> prjObj]
                  ELSE PrjScan(items, k + 1, 1, PrjSet(prjObj, e.prop, e))
             ELSE IF IsZero(e)
             THEN IF prjType = 1
                  THEN [threw |-> TRUE,
                        err |-> "Projection cannot be both exclusive and inclusive",
                        prjType |-> prjType, prjObj |-> prjObj]
                  ELSE PrjScan(items, k + 1, -1, PrjSet(prjObj, e.prop, e))
             ELSE PrjScan(items, k + 1, 1, PrjSet(prjObj, e.prop, e))

\* the loop over schema.paths of an exclusion: every path of the schema
\* that the projection does not exclude is included
RECURSIVE PrjFill(_, _, _)
PrjFill(paths, projection, prjObj) ==
    IF paths = <<>> THEN prjObj
    ELSE IF Head(paths) = P_id \/ IsZero(Prop(projection, Head(paths)))
    THEN PrjFill(Tail(paths), projection, prjObj)
    ELSE PrjFill(Tail(paths), projection,
                 PrjSet(prjObj, Head(paths), Scalar("1")))

\* _computePrjDeep(propBase, propChild, schema) of a number or a string
computePrjDeep(n, coll) ==
    IF IsNumber(n) THEN <<n.val>>
    ELSE IF Unquote(n.val) # <<>> /\ Head(Unquote(n.val)) = "$"
    THEN computeDbProp(Tail(Unquote(n.val)), coll)
    ELSE <<"'">> \o Unquote(n.val) \o <<"'">>

\* the second loop: the select list
RECURSIVE PrjList(_, _, _)
PrjList(prjObj, res, coll) ==
    IF prjObj = <<>> THEN res
    ELSE LET e == Head(prjObj)
             res1 == IF res # <<>> THEN res \o <<",">> ELSE res
         IN  IF IsZero(e) THEN PrjList(Tail(prjObj), res1, coll)
             ELSE IF IsOne(e)
             THEN PrjList(Tail(prjObj),
                          res1 \o computeDbProp(e.prop, coll) \o <<"AS">>
                               \o e.prop, coll)
             ELSE PrjList(Tail(prjObj),
                          res1 \o computePrjDeep(e, coll) \o <<"AS">>
                               \o e.prop, coll)

RECURSIVE PrjKeys(_, _)
PrjKeys(keys, coll) ==
    IF keys = <<>> THEN <<>>
    ELSE computeDbProp(Head(keys), coll) \o <<"AS">> \o Head(keys) \o <<",">>
         \o PrjKeys(Tail(keys), coll)

\* _conputeProjection(projection, schema); schema is the sequence of the
\* schema's paths (all of scalar type), or <<>> when no schema is passed
conputeProjection(projection, schema, coll) ==
    IF ~Truthy(projection)
    THEN [threw |-> FALSE, err |-> "none", prjType |-> 0, text |-> <<"*">>]
    ELSE LET s == PrjScan(projection.items, 1, 0, <<>>)
             id == Prop(projection, P_id)
         IN  IF s.threw
             THEN [threw |-> TRUE, err |-> s.err, prjType |-> s.prjType,
                   text |-> <<>>]
             ELSE IF s.prjType \in {-1, 0} /\ schema = <<>>
             THEN [threw |-> TRUE,
                   err |-> "Schema is not provided for the projection",
                   prjType |-> s.prjType, text |-> <<>>]
             ELSE LET prjObj == IF s.prjType \in {-1, 0}
                                THEN PrjFill(schema, projection, s.prjObj)
                                ELSE s.prjObj
                      res == PrjList(prjObj, <<>>, coll)
                  IN  [threw |-> FALSE, err |-> "none",
                       prjType |-> s.prjType,
                       text |-> IF id.kind = "undefined"
                                   \/ (id.kind = "scalar"
                                       /\ id.val \in {"1", "true"})
                                THEN PrjKeys(coll.primaryKeyList, coll)
                                     \o res
                                ELSE res]


\* ------------------------------------------------- rows and documents
Date == Node("date", IsoText, <<>>)
ObjectId == Node("objectId", HexText, <<>>)

\* '' + obj._id, the value of the key column of a simple-key table
KeyText(n) == IF n.kind = "date" THEN DateText ELSE ToStr(n)

\* delete obj[p]
Delete(items, p) == SelectSeq(items, LAMBDA e : e.prop # p)

\* obj[p] = n: a new property goes last, an old one keeps its place
Put(items, p, n) ==
    IF \E k \in 1..Len(items) : items[k].prop = p
    THEN [k \in 1..Len(items) |->
             IF items[k].prop = p THEN At(p, n) ELSE items[k]]
    ELSE Append(items, At(p, n))

\* Object.assign(row, obj)
RECURSIVE Assign(_, _)
Assign(row, items) ==
    IF items = <<>> THEN row
    ELSE Assign(Put(row, Head(items).prop, Head(items)), Tail(items))

\* _setPK(row, obj)
setPK(row, obj, coll) ==
    IF coll.hasCompositeKeys
    THEN Prop(obj, P_id).items
    ELSE Put(row, <<KVID>>, Scalar(KeyText(Prop(obj, P_id))))

\* _fixTypesBeforeInsert(obj), OBJECTID_ENABLED being false
RECURSIVE fixTypesBeforeInsert(_)
fixTypesBeforeInsert(n) ==
    IF ~Truthy(n) THEN n
    ELSE IF n.kind \in {"objectId", "date"}
    THEN At(n.prop, Scalar(n.val))
    ELSE IF n.kind \in {"array", "object"}
    THEN [n EXCEPT !.items =
             [k \in 1..Len(n.items) |-> fixTypesBeforeInsert(n.items[k])]]
    ELSE n

\* _marshallObjectIntoRow(obj): the row sent to the store
marshallObjectIntoRow(obj, coll) ==
    LET row == setPK(<<>>, obj, coll)
        rest == [obj EXCEPT !.items = Delete(@, P_id)]
    IN  Obj(Assign(row, fixTypesBeforeInsert(rest).items))

\* _fixTypesAfterRead(obj), OBJECTID_ENABLED being false: an object with a
\* string _id gets an ObjectId for it and is returned as it is
RECURSIVE fixTypesAfterRead(_)
fixTypesAfterRead(n) ==
    IF Truthy(n) /\ Truthy(Prop(n, P_id)) /\ IsString(Prop(n, P_id))
    THEN [n EXCEPT !.items =
             Put(@, P_id, Node("objectId", Prop(n, P_id).val, <<>>))]
    ELSE IF ~Truthy(n) THEN n
    ELSE IF n.kind \in {"array", "object"}
    THEN [n EXCEPT !.items =
             [k \in 1..Len(n.items) |-> fixTypesAfterRead(n.items[k])]]
    ELSE n

\* this._hasCompositeKeys inside the static _unmarshalObjectFromRow, where
\* this is the class: the class has no such property
StaticHasCompositeKeys == FALSE

\* _unmarshalObjectFromRow(row): the document, or the error thrown
unmarshalObjectFromRow(row) ==
    IF StaticHasCompositeKeys
    THEN Node("throw", "TypeError", <<>>)
    ELSE [row EXCEPT !.items =
             Delete(Put(@, P_id, Prop(row, <<KVID>>)), <<KVID>>)]

\* the document a query returns for a stored row
readRow(row) == unmarshalObjectFromRow(fixTypesAfterRead(row))


\* ------------------------------------------- OrcoosCollection, table check
\* chk is the position of the caller's _checkTableIsCreated(), pc that of
\* the operation itself; auto and schema come from the options passed in,
\* keys, filter, update and doc are the other arguments.  sent tells that
\* the operation has sent a call to the store, err and errKey which error
\* it threw, out the value it returned.
IdleCaller ==
    [op |-> "none", pc |-> "idle", chk |-> "none", auto |-> TRUE,
     schema |-> "simple", gt |-> "none", ddl |-> FALSE, marked |-> FALSE,
     chkRes |-> "none", res |-> "none", failed |-> FALSE,
     keys |-> Undefined, filter |-> Undefined, update |-> Undefined,
     doc |-> Undefined, sent |-> FALSE, err |-> "none", errKey |-> <<>>,
     out |-> Undefined, where |-> <<>>]

\* table && table.tableState == TableState.ACTIVE
TableIsActiveNever(t) == FALSE

TableIsActive(t) == t.state = "active"

\* e instanceof NoSQLError && e.errorCode === ErrorCode.TABLE_NOT_FOUND
IsTableNotFoundAny(e) == e \in {"notFound", "error"}

IsTableNotFound(e) == e = "notFound"

\* the operation of caller cl continues after its awaited table check
\* returned (ok) or threw: insertOne sends the put, or throws in its turn;
\* createIndex never awaited the check; the other operations and
\* _queryPromise go on after their await, or throw in their turn
AfterCheck(cl, ok) ==
    LET c1 == [cl EXCEPT !.chk = "done",
                         !.chkRes = IF ok THEN "ok" ELSE "threw"]
    IN  IF cl.op = "insertOne"
        THEN IF ok THEN [c1 EXCEPT !.pc = "put"]
             ELSE [c1 EXCEPT !.pc = "done", !.res = "throw",
                             !.err = "check"]
        ELSE IF cl.pc \in {"check", "qpCheck"}
        THEN IF ok
             THEN [c1 EXCEPT !.pc = IF cl.pc = "check" THEN "checked"
                                    ELSE "qpChecked"]
             ELSE [c1 EXCEPT !.pc = "done", !.res = "throw",
                             !.err = IF cl.pc = "check" THEN "check"
                                     ELSE "query"]
        ELSE c1

Checking(i) == callers[i].chk \in {"getTable", "tableDDL", "forCompletion"}

\* the primary key of the row of the document or filter obj
KeyOf(obj) == setPK(<<>>, obj, Coll(collection.hasCompositeKeys))

\* the document caller i inserts: the callers' documents have pairwise
\* distinct identities
DocOf(i) ==
    Obj(<<At(P_id, Scalar(IF i = 1 THEN "\"x\"" ELSE "5")),
          At(<<"a">>, Scalar("5"))>>)

\* caller i is not inside a call: not in an operation or a table check of
\* its own, and not one of the insertOne calls insertMany is waiting for
NotInCall(i) ==
    /\ callers[i].pc \in {"idle", "done"} /\ ~Checking(i)
    /\ callers[i].chk # "acquire"
    /\ ~(many.st = "running" /\ i \in many.S)

\* insertOne(doc, options) for every caller of S, each up to its await
InsertOnes(S, auto, schema) ==
    /\ S # {}
    /\ \A i \in S : NotInCall(i)
    /\ started + Cardinality(S) <= MaxCalls
    /\ started' = started + Cardinality(S)
    /\ callers' = [i \in CallerIds |->
          IF i \in S
          THEN [IdleCaller EXCEPT !.op = "insertOne", !.pc = "check",
                                  !.chk = "acquire", !.auto = auto,
                                  !.schema = schema, !.doc = DocOf(i)]
          ELSE callers[i]]
    /\ UNCHANGED <<bindVars, cursorVars, fails, collection, lock, table,
                   ddlIssued, ddlFailed>>

\* insertOne(doc, options), or insertMany(docs, options) which starts one
\* insertOne per document before it awaits any of them
StartInsert(S, auto, schema) ==
    /\ InsertOnes(S, auto, schema)
    /\ UNCHANGED opVars

\* insertMany(docs, options) up to its await Promise.all(promises): before
\* is the number of rows the table holds at the call, fresh tells that it
\* holds none of the documents
InsertMany(S, auto, schema) ==
    /\ many.st # "running"
    /\ InsertOnes(S, auto, schema)
    /\ many' = [st |-> "running", S |-> S, before |-> Cardinality(rows),
                fresh |-> \A i \in S : KeyOf(DocOf(i)) \notin rows]
    /\ UNCHANGED <<call, rows>>

\* the paths the Mongoose schema passed to createIndex knows
SchemaPaths == {<<"a">>, <<"b">>}

\* key.includes(c)
Includes(key, c) == \E k \in 1..Len(key) : key[k] = c

\* value != 1, with the conversions of !=
NotEqualsOneNever(n) == FALSE

NotEqualsOne(n) ==
    ~(n.kind = "scalar" /\ n.val \in {"1", "true", "\"1\""})

\* the loop of createIndex over Object.entries(keys): the error the first
\* entry that is not accepted throws, with what the message shows
RECURSIVE indexKeysError(_)
indexKeysError(items) ==
    IF items = <<>> THEN [err |-> "none", key |-> <<>>]
    ELSE LET e == Head(items)
         IN  IF Includes(e.prop, "*") \/ Includes(e.prop, "$")
             THEN [err |-> "wildcard", key |-> e.prop]
             ELSE IF NotEqualsOne(e)
             THEN [err |-> "pathValue", key |-> <<e.val>>]
             ELSE IF e.prop \notin SchemaPaths
             THEN [err |-> "noProperty", key |-> e.prop]
             ELSE indexKeysError(Tail(items))

\* createIndex(keys, options, schema): rejects keys it does not support,
\* starts the table check without awaiting it, sends CREATE INDEX
StartCreateIndex(i, auto, schema, keys) ==
    /\ callers[i].pc \in {"idle", "done"} /\ ~Checking(i)
    /\ callers[i].chk # "acquire"
    /\ started < MaxCalls
    /\ started' = started + 1
    /\ callers' = [callers EXCEPT ![i] =
          LET e == indexKeysError(keys.items)
          IN  IF e.err = "none"
              THEN [IdleCaller EXCEPT !.op = "createIndex",
                                      !.pc = "indexDDL",
                                      !.chk = "acquire", !.auto = auto,
                                      !.schema = schema, !.keys = keys,
                                      !.sent = TRUE]
              ELSE [IdleCaller EXCEPT !.op = "createIndex", !.pc = "done",
                                      !.res = "throw", !.keys = keys,
                                      !.err = e.err, !.errKey = e.key]]
    /\ UNCHANGED <<bindVars, opVars, cursorVars, fails, collection, lock, table, ddlIssued,
                   ddlFailed>>

\* await this._lock.acquire() returns: the check sends getTable
Acquire(i) ==
    /\ callers[i].chk = "acquire"
    /\ lock = 0
    /\ lock' = i
    /\ callers' = [callers EXCEPT ![i].chk = "getTable", ![i].sent = TRUE]
    /\ UNCHANGED <<bindVars, opVars, cursorVars, fails, collection, table, ddlIssued,
                   ddlFailed, started>>

\* getTable returned a table: if it is active the check is done, else it
\* goes on to create the table unless autoCreate is false
GetTableOk(i) ==
    /\ callers[i].chk = "getTable"
    /\ table.state # "absent"
    /\ LET cl == [callers[i] EXCEPT
                     !.gt = IF TableIsActive(table) THEN "active"
                            ELSE "notActive"]
       IN  IF TableIsActive(table)
           THEN /\ collection' = [created |-> TRUE,
                      hasCompositeKeys |-> table.keys = "composite"]
                /\ callers' = [callers EXCEPT ![i] =
                      AfterCheck([cl EXCEPT !.marked = TRUE], TRUE)]
                /\ lock' = 0
                /\ UNCHANGED ddlIssued
           ELSE IF ~cl.auto
           THEN /\ callers' = [callers EXCEPT ![i] = AfterCheck(cl, TRUE)]
                /\ lock' = 0
                /\ UNCHANGED <<collection, ddlIssued>>
           ELSE IF cl.schema = "invalid"
           THEN /\ callers' = [callers EXCEPT ![i] = AfterCheck(cl, FALSE)]
                /\ lock' = 0
                /\ UNCHANGED <<collection, ddlIssued>>
           ELSE /\ callers' = [callers EXCEPT ![i] =
                      [cl EXCEPT !.chk = "tableDDL", !.ddl = TRUE]]
                /\ collection' = [collection EXCEPT !.hasCompositeKeys =
                                     @ \/ cl.schema = "composite"]
                /\ ddlIssued' = ddlIssued + 1
                /\ UNCHANGED lock
    /\ UNCHANGED <<bindVars, opVars, cursorVars, fails, table, ddlFailed, started>>

\* getTable threw e: TABLE_NOT_FOUND is ignored and the check goes on to
\* create the table unless autoCreate is false; any other error is rethrown
GetTableThrows(i, e) ==
    /\ callers[i].chk = "getTable"
    /\ e = "notFound" => table.state = "absent"
    /\ e = "error" => fails < MaxFail
    /\ fails' = IF e = "error" THEN fails + 1 ELSE fails
    /\ LET cl == [callers[i] EXCEPT !.gt = e,
                                    !.failed = @ \/ e = "error"]
       IN  IF ~IsTableNotFound(e)
           THEN /\ callers' = [callers EXCEPT ![i] = AfterCheck(cl, FALSE)]
                /\ lock' = 0
                /\ UNCHANGED <<collection, ddlIssued>>
           ELSE IF ~cl.auto
           THEN /\ callers' = [callers EXCEPT ![i] = AfterCheck(cl, TRUE)]
                /\ lock' = 0
                /\ UNCHANGED <<collection, ddlIssued>>
           ELSE IF cl.schema = "invalid"
           THEN /\ callers' = [callers EXCEPT ![i] = AfterCheck(cl, FALSE)]
                /\ lock' = 0
                /\ UNCHANGED <<collection, ddlIssued>>
           ELSE /\ callers' = [callers EXCEPT ![i] =
                      [cl EXCEPT !.chk = "tableDDL", !.ddl = TRUE]]
                /\ collection' = [collection EXCEPT !.hasCompositeKeys =
                                     @ \/ cl.schema = "composite"]
                /\ ddlIssued' = ddlIssued + 1
                /\ UNCHANGED lock
    /\ UNCHANGED <<bindVars, opVars, cursorVars, table, ddlFailed, started>>

\* tableDDL(CREATE TABLE IF NOT EXISTS ...) returned: wait for completion
TableDDLOk(i) ==
    /\ callers[i].chk = "tableDDL"
    /\ table' = IF table.state = "absent"
                THEN [state |-> "creating", keys |-> callers[i].schema]
                ELSE table
    /\ callers' = [callers EXCEPT ![i].chk = "forCompletion"]
    /\ UNCHANGED <<bindVars, opVars, cursorVars, fails, collection, lock, ddlIssued,
                   ddlFailed, started>>

\* tableDDL threw: the check rethrows, the finally clause releases the lock
TableDDLFail(i) ==
    /\ callers[i].chk = "tableDDL"
    /\ fails < MaxFail
    /\ fails' = fails + 1
    /\ ddlFailed' = ddlFailed + 1
    /\ callers' = [callers EXCEPT ![i] =
          AfterCheck([callers[i] EXCEPT !.failed = TRUE], FALSE)]
    /\ lock' = 0
    /\ UNCHANGED <<bindVars, opVars, cursorVars, collection, table, ddlIssued, started>>

\* forCompletion returned: the table is active, _created = true
ForCompletionOk(i) ==
    /\ callers[i].chk = "forCompletion"
    /\ table' = [table EXCEPT !.state = "active"]
    /\ collection' = [collection EXCEPT !.created = TRUE]
    /\ callers' = [callers EXCEPT ![i] =
          AfterCheck([callers[i] EXCEPT !.marked = TRUE], TRUE)]
    /\ lock' = 0
    /\ UNCHANGED <<bindVars, opVars, cursorVars, fails, ddlIssued, ddlFailed, started>>

\* forCompletion threw: the table is left as it is
ForCompletionFail(i) ==
    /\ callers[i].chk = "forCompletion"
    /\ fails < MaxFail
    /\ fails' = fails + 1
    /\ ddlFailed' = ddlFailed + 1
    /\ callers' = [callers EXCEPT ![i] =
          AfterCheck([callers[i] EXCEPT !.failed = TRUE], FALSE)]
    /\ lock' = 0
    /\ UNCHANGED <<bindVars, opVars, cursorVars, collection, table, ddlIssued, started>>

\* the positions at which an operation waits for a store call of its own
StoreCalls ==
    {"put", "indexDDL", "indexWait", "query", "putIfPresent", "delete",
     "deleteAll"}

\* the rows of the table after the store call of caller cl was carried out
RowsAfter(cl) ==
    IF cl.pc = "put" THEN rows \cup {KeyOf(cl.doc)}
    ELSE IF cl.pc = "delete" \/ (cl.pc = "query"
                                  /\ cl.op = "findOneAndDelete")
    THEN rows \ {KeyOf(cl.filter)}
    ELSE IF cl.pc = "deleteAll" THEN {}
    ELSE rows

\* obj._id as insertOne reads it for its result, after
\* _marshallObjectIntoRow(obj) ran delete obj._id
insertedId(obj) == Prop([obj EXCEPT !.items = Delete(@, P_id)], P_id)

\* a store call of the operation itself returns: put for insertOne, then
\* tableDDL(CREATE INDEX ...) and forCompletion for createIndex, the
\* statement, putIfPresent or delete of the other operations
OpCallOk(i) ==
    /\ callers[i].pc \in StoreCalls
    /\ table.state = "active"
    /\ callers' = [callers EXCEPT ![i] =
          IF callers[i].pc = "indexDDL" THEN [@ EXCEPT !.pc = "indexWait"]
          ELSE IF callers[i].pc = "put"
          THEN [@ EXCEPT !.pc = "done", !.res = "ok",
                         !.out = insertedId(callers[i].doc)]
          ELSE [@ EXCEPT !.pc = "done", !.res = "ok"]]
    /\ rows' = RowsAfter(callers[i])
    /\ UNCHANGED <<bindVars, call, many, cursorVars, fails, collection, lock,
                   table, ddlIssued, ddlFailed, started>>

\* a store call of the operation itself throws: the operation throws
OpCallFail(i) ==
    /\ callers[i].pc \in StoreCalls
    /\ table.state # "active" \/ fails < MaxFail
    /\ fails' = IF table.state = "active" THEN fails + 1 ELSE fails
    /\ callers' = [callers EXCEPT ![i] =
          [@ EXCEPT !.pc = "done", !.res = "throw", !.failed = TRUE,
                    !.err = "store"]]
    /\ UNCHANGED <<bindVars, opVars, cursorVars, collection, lock, table, ddlIssued,
                   ddlFailed, started>>


\* filter && filter._id
HasIdAlways(filter) == TRUE

HasId(filter) == Truthy(filter) /\ Truthy(Prop(filter, P_id))

\* the operation of cl throws err
Thrown(cl, err, key) ==
    [cl EXCEPT !.pc = "done", !.res = "throw", !.err = err, !.errKey = key]

\* this._computeUpdateClause(update) and this._computeWhere(filter,
\* undefined) in an operation that has not thrown: the error thrown, if any
WithClause(cl) ==
    LET u == computeUpdateClause(cl.update,
                                 Coll(collection.hasCompositeKeys))
    IN  IF cl.pc = "done" THEN cl
        ELSE IF u.threw THEN Thrown(cl, "unknownOperator", u.key)
        ELSE cl
WithWhere(cl) ==
    LET w == computeWhere(cl.filter, [isNull |-> TRUE, entries |-> <<>>],
                          Coll(collection.hasCompositeKeys))
    IN  IF cl.pc = "done" THEN cl
        ELSE IF w.threw THEN Thrown(cl, "where", <<>>)
        ELSE [cl EXCEPT !.where = w.text]

\* _queryPromise(client, stmt, bindings, options) up to its first await,
\* unless the operation has thrown before calling it
queryPromise(cl) ==
    IF cl.pc = "done" THEN cl
    ELSE [cl EXCEPT !.pc = "qpCheck", !.chk = "acquire"]

\* the statement text of the operation, as the key of prepStmtCache
StmtOf(cl) ==
    IF cl.op = "findOneAndDelete" THEN "deleteReturning"
    ELSE IF cl.op = "findOneAndUpdate" THEN "updateReturning"
    ELSE "update"

\* updateOne, updateMany, findOneAndUpdate (filter, update, options),
\* findOneAndDelete, deleteOne (filter, options) and replaceOne (filter,
\* replacement, options), each up to its first await or its throw
StartOp(i, op, filter, update, auto) ==
    /\ NotInCall(i)
    /\ started < MaxCalls
    /\ started' = started + 1
    /\ callers' = [callers EXCEPT ![i] =
          LET c0 == [IdleCaller EXCEPT !.op = op, !.auto = auto,
                                       !.filter = filter,
                                       !.update = update]
          IN  IF op = "deleteOne" /\ filter.kind \in {"undefined", "null"}
              THEN Thrown(c0, "typeError", <<>>)
              ELSE IF ~HasId(filter) THEN Thrown(c0, "noId", <<>>)
              ELSE IF op \in {"updateOne", "replaceOne", "deleteOne"}
              THEN [c0 EXCEPT !.pc = "check", !.chk = "acquire"]
              ELSE IF op = "updateMany"
              THEN queryPromise(WithWhere(WithClause(c0)))
              ELSE IF op = "findOneAndDelete"
              THEN queryPromise(WithWhere(c0))
              ELSE LET c == WithClause(WithWhere(c0))
                   IN  IF c.pc = "done" THEN c
                       ELSE [c EXCEPT !.pc = "check", !.chk = "acquire"]]
    /\ UNCHANGED <<bindVars, opVars, cursorVars, fails, collection, lock,
                   table, ddlIssued, ddlFailed>>

\* deleteMany(filter, options) with no filter, up to its await
StartDeleteMany(i, auto) ==
    /\ NotInCall(i)
    /\ started < MaxCalls
    /\ started' = started + 1
    /\ callers' = [callers EXCEPT ![i] =
          [IdleCaller EXCEPT !.op = "deleteMany", !.auto = auto,
                             !.pc = "check", !.chk = "acquire"]]
    /\ UNCHANGED <<bindVars, opVars, cursorVars, fails, collection, lock,
                   table, ddlIssued, ddlFailed>>

\* an operation, or _queryPromise, goes on after its await of the table
\* check returned: up to its next await or its throw
AfterAwait(i) ==
    /\ callers[i].pc \in {"checked", "qpChecked"}
    /\ callers' = [callers EXCEPT ![i] =
          LET cl == callers[i]
          IN  IF cl.pc = "qpChecked"
              THEN IF prepStmtCache[StmtOf(cl)] = NoHandle
                   THEN [cl EXCEPT !.pc = "prepare"]
                   ELSE [cl EXCEPT !.pc = "query"]
              ELSE IF cl.op = "updateOne"
              THEN queryPromise(WithWhere(WithClause(cl)))
              ELSE IF cl.op = "findOneAndUpdate" THEN queryPromise(cl)
              ELSE IF cl.op = "replaceOne"
              THEN [cl EXCEPT !.pc = "putIfPresent"]
              ELSE IF cl.op = "deleteOne" THEN [cl EXCEPT !.pc = "delete"]
              ELSE [cl EXCEPT !.pc = "deleteAll"]]
    /\ UNCHANGED <<bindVars, opVars, cursorVars, fails, collection, lock,
                   table, ddlIssued, ddlFailed, started>>

\* client.prepare(stmt) of _queryPromise returns: the statement is cached
\* and executed
QpPrepareOk(i) ==
    /\ callers[i].pc = "prepare"
    /\ table.state = "active"
    /\ prepStmtCache' = [prepStmtCache EXCEPT ![StmtOf(callers[i])] = clears]
    /\ callers' = [callers EXCEPT ![i].pc = "query"]
    /\ UNCHANGED <<bindVars, opVars, cursors, source, frames, clears,
                   created, fails, collection, lock, table, ddlIssued,
                   ddlFailed, started>>

\* client.prepare(stmt) throws: _queryPromise throws
QpPrepareFail(i) ==
    /\ callers[i].pc = "prepare"
    /\ table.state # "active" \/ fails < MaxFail
    /\ fails' = IF table.state = "active" THEN fails + 1 ELSE fails
    /\ callers' = [callers EXCEPT ![i] =
          [@ EXCEPT !.pc = "done", !.res = "throw", !.failed = TRUE,
                    !.err = "query"]]
    /\ UNCHANGED <<bindVars, opVars, cursorVars, collection, lock, table,
                   ddlIssued, ddlFailed, started>>

\* the callers of S in the order of the documents
RECURSIVE InOrder(_)
InOrder(S) ==
    IF S = {} THEN <<>>
    ELSE LET i == CHOOSE i \in S : \A j \in S : i <= j
         IN  <<i>> \o InOrder(S \ {i})

\* Promise.all(promises) of insertMany is fulfilled: the result counts and
\* collects the acknowledged inserts
InsertManyReturn ==
    /\ many.st = "running"
    /\ \A i \in many.S : callers[i].pc = "done" /\ callers[i].res = "ok"
    /\ many' = [st |-> "returned", S |-> many.S, before |-> many.before,
                fresh |-> many.fresh,
                insertedCount |-> Cardinality(many.S),
                insertedIds |-> [k \in 1..Cardinality(many.S) |->
                                    callers[InOrder(many.S)[k]].out]]
    /\ UNCHANGED <<bindVars, call, rows, cursorVars, fails, tableVars>>

\* Promise.all(promises) is rejected as soon as one insertOne throws:
\* insertMany throws
InsertManyThrows ==
    /\ many.st = "running"
    /\ \E i \in many.S : callers[i].pc = "done" /\ callers[i].res = "throw"
    /\ many' = [st |-> "threw", S |-> many.S, before |-> many.before,
                fresh |-> many.fresh]
    /\ UNCHANGED <<bindVars, call, rows, cursorVars, fails, tableVars>>


\* ------------------------------------------- calls of the pure functions
P_foo == <<"$", "f", "o", "o">>

\* values an identity, or one field of a composite identity, may have
IdValues == {"\"x\"", "\"\"", "5", "0"}

\* { a: va, b: vb }, a field being left out for "none"
CompositeId(va, vb) ==
    Obj((IF va = "none" THEN <<>> ELSE <<At(<<"a">>, Scalar(va))>>)
        \o (IF vb = "none" THEN <<>> ELSE <<At(<<"b">>, Scalar(vb))>>))
CompositeIds ==
    {CompositeId(va, vb) : va \in IdValues \cup {"none"},
                           vb \in IdValues \cup {"none"}}

\* { _id: id }
IdentityFilters ==
    {Obj(<<At(P_id, Scalar(v))>>) : v \in IdValues}
        \cup {Obj(<<At(P_id, id)>>) : id \in CompositeIds}

\* { p: { $in: [...] } } and { p: { $nin: [...] } }
InElements == {Null, Scalar("0"), Scalar("5"), Scalar("\"x\"")}
InArrays == UNION {[1..n -> InElements] : n \in 0..MaxIn}
InFilters ==
    {Obj(<<At(<<"p">>, Obj(<<At(op, Arr(a))>>))>>) :
        op \in {P_in, P_nin}, a \in InArrays}

\* filters with a logical operator, a comparison or a malformed part
Leaf == Obj(<<At(<<"p">>, Scalar("5"))>>)
GroupOperands ==
    {Arr(<<Leaf>>), Arr(<<Leaf, Obj(<<At(<<"q">>, Scalar("\"x\""))>>)>>),
     Arr(<<>>), Scalar("5"), Leaf}
OtherFilters ==
    {Undefined, Null, Scalar("\"x\""), Scalar("5"), Scalar("0"), Obj(<<>>),
     Leaf, Obj(<<At(<<"p">>, Null)>>),
     Obj(<<At(P_foo, Scalar("5"))>>),
     Obj(<<At(<<"p">>, Scalar("5")), At(P_foo, Leaf)>>),
     Obj(<<At(<<"p">>, Obj(<<At(P_gt, Scalar("5"))>>))>>),
     Obj(<<At(<<"p">>, Obj(<<At(P_eq, Scalar("0"))>>))>>),
     Obj(<<At(<<"p">>, Obj(<<At(P_exists, Scalar("false"))>>))>>),
     Obj(<<At(<<"p">>, Obj(<<At(P_foo, Scalar("5"))>>))>>)}
        \cup {Obj(<<At(g, v)>>) : g \in {P_or, P_and, P_nor, P_not},
                                  v \in GroupOperands}
\* { _id: id, p: 5 }: an identity together with a condition on a field
MixedFilters ==
    {Obj(<<At(P_id, id), At(<<"p">>, Scalar("5"))>>) :
        id \in {Scalar("\"x\""), Scalar("5"),
                CompositeId("\"x\"", "5")}}
Filters == IdentityFilters \cup InFilters \cup OtherFilters \cup MixedFilters

\* update specs of one and of two operators
UpdateKeys1 == UpdateOperators \cup {P_foo}
UpdateValues == {Scalar(v) : v \in Values} \cup {Null}
UpdateArgs ==
    {Obj(<<At(p, v)>>) : p \in {<<"a">>, <<"a", ".", "b">>},
                         v \in UpdateValues} \cup {Scalar("5")}
Updates ==
    {Obj(<<At(k, a)>>) : k \in UpdateKeys1, a \in UpdateArgs}
        \cup {Obj(<<At(k1, Obj(<<At(<<"a">>, Scalar("5"))>>)),
                    At(k2, Obj(<<At(<<"b">>, Scalar("\"x\""))>>))>>) :
                 <<k1, k2>> \in {kk \in UpdateKeys1 \X UpdateKeys1 :
                                     kk[1] # kk[2]}}

\* projection specs over the fields _id, a and b
PrjValues == {"1", "0", "true", "false", "5", RefText}
PrjProps == {P_id, <<"a">>, <<"b">>}
PrjEntries == {At(p, Scalar(v)) : p \in PrjProps, v \in PrjValues}
Projections ==
    {Undefined}
        \cup {Obj(es) : es \in {s \in UNION {[1..n -> PrjEntries] :
                                                n \in 0..MaxPrj} :
                  \A i, j \in DOMAIN s : i # j => s[i].prop # s[j].prop}}
Schemas == {<<>>, << <<"a">>, <<"b">>, <<"c">> >>}

\* documents: an identity and any of the fields when, list, sub and s
DocFields ==
    {At(<<"when">>, Date),
     At(<<"list">>, Arr(<<Scalar("\"x\""), Date>>)),
     At(<<"sub">>, Obj(<<At(<<"n">>, Scalar("5")), At(<<"d">>, Date),
                        At(P_id, ObjectId)>>)),
     At(<<"s">>, Scalar("\"x\""))}
DocBodies ==
    {SelectSeq(<<At(<<"when">>, Date),
                 At(<<"list">>, Arr(<<Scalar("\"x\""), Date>>)),
                 At(<<"sub">>, Obj(<<At(<<"n">>, Scalar("5")),
                                    At(<<"d">>, Date), At(P_id, ObjectId)>>)),
                 At(<<"s">>, Scalar("\"x\""))>>,
               LAMBDA e : e \in S) : S \in SUBSET DocFields}
SimpleIds == {Scalar("\"x\""), Scalar("5"), ObjectId}
FullCompositeIds ==
    {CompositeId(va, vb) : va \in {"5", "\"x\""}, vb \in {"5", "\"x\""}}
Docs(composite) ==
    {Obj(<<At(P_id, id)>> \o body) :
        id \in (IF composite THEN FullCompositeIds ELSE SimpleIds),
        body \in DocBodies}

\* the calls made: _computeWhere with bindings {} (isNull false, as find
\* and count do) or undefined (as update and delete do), and the others
Calls ==
    {[fn |-> "_computeWhere", done |-> FALSE, filter |-> f,
      composite |-> c, isNull |-> n] :
        f \in Filters, c \in BOOLEAN, n \in BOOLEAN}
    \cup {[fn |-> "_computeUpdateClause", done |-> FALSE, update |-> u,
           composite |-> c] : u \in Updates, c \in BOOLEAN}
    \cup {[fn |-> "_conputeProjection", done |-> FALSE, projection |-> p,
           schema |-> s, composite |-> c] :
             p \in Projections, s \in Schemas, c \in BOOLEAN}
    \cup {[fn |-> "roundTrip", done |-> FALSE, doc |-> d,
           composite |-> FALSE] : d \in Docs(FALSE)}
    \cup {[fn |-> "roundTrip", done |-> FALSE, doc |-> d,
           composite |-> TRUE] : d \in Docs(TRUE)}

Pending(fn) == call.fn = fn /\ ~call.done

ComputeWhere ==
    /\ Pending("_computeWhere")
    /\ call' = [fn |-> call.fn, done |-> TRUE, filter |-> call.filter,
                composite |-> call.composite, isNull |-> call.isNull,
                out |-> computeWhere(call.filter,
                                     [isNull |-> call.isNull,
                                      entries |-> <<>>],
                                     Coll(call.composite))]
    /\ UNCHANGED <<cursorVars, fails, tableVars, bindVars, rows, many>>

ComputeUpdateClause ==
    /\ Pending("_computeUpdateClause")
    /\ call' = [fn |-> call.fn, done |-> TRUE, update |-> call.update,
                composite |-> call.composite,
                out |-> computeUpdateClause(call.update,
                                            Coll(call.composite))]
    /\ UNCHANGED <<cursorVars, fails, tableVars, bindVars, rows, many>>

ConputeProjection ==
    /\ Pending("_conputeProjection")
    /\ call' = [fn |-> call.fn, done |-> TRUE,
                projection |-> call.projection, schema |-> call.schema,
                composite |-> call.composite,
                out |-> conputeProjection(call.projection, call.schema,
                                          Coll(call.composite))]
    /\ UNCHANGED <<cursorVars, fails, tableVars, bindVars, rows, many>>

\* a document is marshalled, stored, read back and unmarshalled
RoundTrip ==
    /\ Pending("roundTrip")
    /\ LET row == marshallObjectIntoRow(call.doc, Coll(call.composite))
       IN  call' = [fn |-> call.fn, done |-> TRUE, doc |-> call.doc,
                    composite |-> call.composite, row |-> row,
                    out |-> readRow(row)]
    /\ UNCHANGED <<cursorVars, fails, tableVars, bindVars, rows, many>>


\* no compiler call made yet, an empty table, no insertMany() in progress
NoCall == [fn |-> "none"]
NoMany == [st |-> "none"]
InitOps ==
    /\ call = NoCall
    /\ rows = {}
    /\ many = NoMany

Init ==
    /\ cursors = [c \in CursorIds |-> NoCursor]
    /\ source = [c \in CursorIds |-> NoSource]
    /\ frames = [t \in FrameIds |-> IdleFrame]
    /\ prepStmtCache = [s \in CacheKeys |-> NoHandle]
    /\ clears = 0
    /\ fails = 0
    /\ created = 0
    /\ collection = [created |-> FALSE, hasCompositeKeys |-> FALSE]
    /\ lock = 0
    /\ table = [state |-> "absent", keys |-> "simple"]
    /\ callers = [i \in CallerIds |-> IdleCaller]
    /\ ddlIssued = 0
    /\ ddlFailed = 0
    /\ started = 0
    /\ bindings = [isNull |-> FALSE, entries |-> <<>>]
    /\ stored = <<>>
    /\ InitOps

\* One cursor and one consumer, which may also call close() at any time.
Next ==
    \/ \E b \in BOOLEAN, k \in 0..MaxLimitArg, n \in 0..MaxDocs :
          NewCursor(1, "q1", b, k, n)
    \/ \E op \in {"next", "tryNext", "hasNext", "toArray"} :
          StartPull(1, 1, op)
    \/ StartIterate(1, 1)
    \/ IterContinue(1)
    \/ IterBreak(1)
    \/ Close(1)
    \/ \E t \in FrameIds : PrepareOk(t)
    \/ \E t \in FrameIds : PrepareFail(t)
    \/ \E t \in FrameIds : CopyDone(t)
    \/ \E t \in FrameIds : OpenOk(t)
    \/ \E t \in FrameIds : OpenFail(t)
    \/ \E t \in FrameIds, k \in 0..MaxBatch : BatchRows(t, k)
    \/ \E t \in FrameIds : BatchEnd(t)
    \/ \E t \in FrameIds : BatchFail(t)
    \/ Evict("q1")

Spec == Init /\ [][Next]_vars


\* One cursor after another over a short result, each pulled, drained or
\* iterated by one consumer that never calls close() itself.
NextPulls ==
    \/ \E b \in BOOLEAN, k \in {1, MaxLimitArg}, n \in {0, 2} :
          /\ cursors[1].exists => cursors[1].ops > 0
          /\ NewCursor(1, "q1", b, k, n)
    \/ \E op \in {"next", "tryNext", "hasNext", "toArray"} :
          StartPull(1, 1, op)
    \/ StartIterate(1, 1)
    \/ IterContinue(1)
    \/ IterBreak(1)
    \/ \E t \in FrameIds : PrepareOk(t)
    \/ \E t \in FrameIds : PrepareFail(t)
    \/ \E t \in FrameIds : CopyDone(t)
    \/ \E t \in FrameIds : OpenOk(t)
    \/ \E t \in FrameIds : OpenFail(t)
    \/ \E t \in FrameIds, k \in 0..2 : BatchRows(t, k)
    \/ \E t \in FrameIds : BatchEnd(t)
    \/ \E t \in FrameIds : BatchFail(t)
    \/ Evict("q1")

SpecPulls == Init /\ [][NextPulls]_vars

\* Fresh cursors drained with toArray() and nothing else: every creation,
\* every batch split and every store failure, one cursor after another.
NextToArray ==
    \/ \E b \in BOOLEAN, k \in 0..MaxLimitArg, n \in 0..MaxDocs :
          NewCursor(1, "q1", b, k, n)
    \/ /\ cursors[1].ops = 0
       /\ StartPull(1, 1, "toArray")
    \/ PrepareOk(1)
    \/ PrepareFail(1)
    \/ CopyDone(1)
    \/ OpenOk(1)
    \/ OpenFail(1)
    \/ \E k \in 0..MaxBatch : BatchRows(1, k)
    \/ BatchEnd(1)
    \/ BatchFail(1)
    \/ Evict("q1")

SpecToArray == Init /\ [][NextToArray]_vars

\* Cursors that share the cache, each pulled once with next(); two of them
\* may be in progress at the same time.
NextCache ==
    \/ \E c \in CursorIds, s \in Statements, n \in 0..1 :
          /\ cursors[c].exists => cursors[c].ops > 0
          /\ NewCursor(c, s, FALSE, MaxLimitArg, n)
    \/ \E t \in TaskIds, c \in CursorIds :
          /\ cursors[c].ops = 0
          /\ StartPull(t, c, "next")
    \/ \E t \in TaskIds : PrepareOk(t)
    \/ \E t \in TaskIds : PrepareFail(t)
    \/ \E t \in TaskIds : OpenOk(t)
    \/ \E t \in TaskIds : OpenFail(t)
    \/ \E t \in TaskIds, k \in 0..1 : BatchRows(t, k)
    \/ \E t \in TaskIds : BatchEnd(t)
    \/ \E t \in TaskIds : BatchFail(t)
    \/ \E s \in Statements : Evict(s)

SpecCache == Init /\ [][NextCache]_vars


\* Cursors over one statement text, with and without bindings, that start
\* at the same time on the shared cache; no store call fails and the cache
\* drops no entry, so an entry stays once it is set.
NextShared ==
    \/ \E c \in CursorIds, b \in BOOLEAN, n \in 0..1 :
          /\ cursors[c].exists => cursors[c].ops > 0
          /\ NewCursor(c, "q1", b, MaxLimitArg, n)
    \/ \E t \in TaskIds, c \in CursorIds :
          /\ cursors[c].ops = 0
          /\ StartPull(t, c, "next")
    \/ \E t \in TaskIds : PrepareOk(t)
    \/ \E t \in TaskIds : CopyDone(t)
    \/ \E t \in TaskIds : OpenOk(t)
    \/ \E t \in TaskIds : BatchRows(t, 1)
    \/ \E t \in TaskIds : BatchEnd(t)

SpecShared == Init /\ [][NextShared]_vars

\* Operations on one collection object, all going through its table check.
NextTable ==
    \/ \E S \in SUBSET CallerIds, auto \in BOOLEAN,
          schema \in {"simple", "composite", "invalid"} :
          StartInsert(S, auto, schema)
    \/ \E i \in CallerIds, auto \in BOOLEAN,
          keys \in {Obj(<<At(<<"a">>, Scalar("1"))>>),
                    Obj(<<At(<<"a", ".", "*">>, Scalar("1"))>>)} :
          StartCreateIndex(i, auto, "simple", keys)
    \/ \E i \in CallerIds : Acquire(i)
    \/ \E i \in CallerIds : GetTableOk(i)
    \/ \E i \in CallerIds, e \in {"notFound", "error"} : GetTableThrows(i, e)
    \/ \E i \in CallerIds : TableDDLOk(i)
    \/ \E i \in CallerIds : TableDDLFail(i)
    \/ \E i \in CallerIds : ForCompletionOk(i)
    \/ \E i \in CallerIds : ForCompletionFail(i)
    \/ \E i \in CallerIds : OpCallOk(i)
    \/ \E i \in CallerIds : OpCallFail(i)

\* the table may exist before the process starts
InitTable ==
    \E t \in {[state |-> "absent", keys |-> "simple"],
              [state |-> "active", keys |-> "simple"],
              [state |-> "active", keys |-> "composite"]} :
        /\ table = t
        /\ cursors = [c \in CursorIds |-> NoCursor]
        /\ source = [c \in CursorIds |-> NoSource]
        /\ frames = [f \in FrameIds |-> IdleFrame]
        /\ prepStmtCache = [s \in CacheKeys |-> NoHandle]
        /\ clears = 0
        /\ fails = 0
        /\ created = 0
        /\ collection = [created |-> FALSE, hasCompositeKeys |-> FALSE]
        /\ lock = 0
        /\ callers = [i \in CallerIds |-> IdleCaller]
        /\ ddlIssued = 0
        /\ ddlFailed = 0
        /\ started = 0
    /\ bindings = [isNull |-> FALSE, entries |-> <<>>]
    /\ stored = <<>>
    /\ InitOps

SpecTable == InitTable /\ [][NextTable]_vars

\* One createIndex call, on any index spec of at most MaxIdx keys.
IndexNames == {<<"a">>, <<"b">>, <<"c">>, <<"a", ".", "*">>, <<"$">>}
IndexValues == {"1", "0", "true"}
IndexEntries == {At(k, Scalar(v)) : k \in IndexNames, v \in IndexValues}
RECURSIVE IndexItems(_)
IndexItems(n) ==
    IF n = 0 THEN {<<>>}
    ELSE LET shorter == IndexItems(n - 1)
         IN  shorter \cup
             {Append(items, e) : <<items, e>> \in
                 {ie \in shorter \X IndexEntries :
                     /\ Len(ie[1]) = n - 1
                     /\ \A k \in 1..Len(ie[1]) :
                           ie[1][k].prop # ie[2].prop}}
IndexSpecs == {Obj(items) : items \in IndexItems(MaxIdx) \ {<<>>}}

NextIndex ==
    \/ \E auto \in BOOLEAN, keys \in IndexSpecs :
          /\ started = 0
          /\ StartCreateIndex(1, auto, "simple", keys)
    \/ Acquire(1)
    \/ GetTableOk(1)
    \/ \E e \in {"notFound", "error"} : GetTableThrows(1, e)
    \/ TableDDLOk(1)
    \/ TableDDLFail(1)
    \/ ForCompletionOk(1)
    \/ ForCompletionFail(1)
    \/ OpCallOk(1)
    \/ OpCallFail(1)

SpecIndex == InitTable /\ [][NextIndex]_vars

\* The operations that need an identity in their filter, one after another
\* on one collection object: the filter absent, without _id or with one,
\* the update with or without an operator that is not known.
OpFilters ==
    {Undefined, Obj(<<At(<<"p">>, Scalar("5"))>>),
     Obj(<<At(P_id, Scalar("\"x\""))>>),
     Obj(<<At(P_id, CompositeId("none", "none"))>>)}
SetA == At(P_set, Obj(<<At(<<"a">>, Scalar("5"))>>))
FooA == At(P_foo, Obj(<<At(<<"a">>, Scalar("5"))>>))
OpUpdates == {Obj(<<SetA>>), Obj(<<FooA>>), Obj(<<SetA, FooA>>),
              Obj(<<FooA, SetA>>)}
UpdateOps == {"updateOne", "updateMany", "findOneAndUpdate"}
IdOps == UpdateOps \cup {"findOneAndDelete", "replaceOne", "deleteOne"}

NextOps ==
    \/ \E op \in UpdateOps, filter \in OpFilters, update \in OpUpdates,
          auto \in BOOLEAN :
          StartOp(1, op, filter, update, auto)
    \/ \E filter \in OpFilters, auto \in BOOLEAN :
          \/ StartOp(1, "findOneAndDelete", filter, Undefined, auto)
          \/ StartOp(1, "deleteOne", filter, Undefined, auto)
          \/ StartOp(1, "replaceOne", filter, DocOf(1), auto)
    \/ Acquire(1)
    \/ GetTableOk(1)
    \/ \E e \in {"notFound", "error"} : GetTableThrows(1, e)
    \/ TableDDLOk(1)
    \/ TableDDLFail(1)
    \/ ForCompletionOk(1)
    \/ ForCompletionFail(1)
    \/ AfterAwait(1)
    \/ QpPrepareOk(1)
    \/ QpPrepareFail(1)
    \/ OpCallOk(1)
    \/ OpCallFail(1)

SpecOps == InitTable /\ [][NextOps]_vars

\* insertMany and deleteMany with no filter, one call after the other, on
\* one collection object whose table has simple keys.
NextInsert ==
    \/ \E S \in SUBSET CallerIds, auto \in BOOLEAN :
          /\ \A i \in CallerIds : NotInCall(i)
          /\ InsertMany(S, auto, "simple")
    \/ \E auto \in BOOLEAN :
          /\ \A i \in CallerIds : NotInCall(i)
          /\ StartDeleteMany(1, auto)
    \/ InsertManyReturn
    \/ InsertManyThrows
    \/ \E i \in CallerIds : Acquire(i)
    \/ \E i \in CallerIds : GetTableOk(i)
    \/ \E i \in CallerIds, e \in {"notFound", "error"} : GetTableThrows(i, e)
    \/ \E i \in CallerIds : TableDDLOk(i)
    \/ \E i \in CallerIds : TableDDLFail(i)
    \/ \E i \in CallerIds : ForCompletionOk(i)
    \/ \E i \in CallerIds : ForCompletionFail(i)
    \/ \E i \in CallerIds : AfterAwait(i)
    \/ \E i \in CallerIds : OpCallOk(i)
    \/ \E i \in CallerIds : OpCallFail(i)

InitInsert == InitTable /\ table.keys = "simple"

SpecInsert == InitInsert /\ [][NextInsert]_vars

\* One call of a compiler or of the marshalling functions, on any input of
\* the sets above.
InitCompile ==
    /\ call \in Calls
    /\ rows = {}
    /\ many = NoMany
    /\ cursors = [c \in CursorIds |-> NoCursor]
    /\ source = [c \in CursorIds |-> NoSource]
    /\ frames = [f \in FrameIds |-> IdleFrame]
    /\ prepStmtCache = [s \in CacheKeys |-> NoHandle]
    /\ clears = 0
    /\ fails = 0
    /\ created = 0
    /\ collection = [created |-> FALSE, hasCompositeKeys |-> FALSE]
    /\ lock = 0
    /\ table = [state |-> "absent", keys |-> "simple"]
    /\ callers = [i \in CallerIds |-> IdleCaller]
    /\ ddlIssued = 0
    /\ ddlFailed = 0
    /\ started = 0
    /\ bindings = [isNull |-> FALSE, entries |-> <<>>]
    /\ stored = <<>>

NextCompile ==
    \/ ComputeWhere
    \/ ComputeUpdateClause
    \/ ConputeProjection
    \/ RoundTrip

SpecCompile == InitCompile /\ [][NextCompile]_vars

\* One compilation: with a bindings object, or without one (UPDATE and
\* DELETE statements take literals).
InitBind ==
    \E isNull \in BOOLEAN :
        /\ bindings = [isNull |-> isNull, entries |-> <<>>]
        /\ stored = <<>>
        /\ InitOps
        /\ cursors = [c \in CursorIds |-> NoCursor]
        /\ source = [c \in CursorIds |-> NoSource]
        /\ frames = [f \in FrameIds |-> IdleFrame]
        /\ prepStmtCache = [s \in CacheKeys |-> NoHandle]
        /\ clears = 0
        /\ fails = 0
        /\ created = 0
        /\ collection = [created |-> FALSE, hasCompositeKeys |-> FALSE]
        /\ lock = 0
        /\ table = [state |-> "absent", keys |-> "simple"]
        /\ callers = [i \in CallerIds |-> IdleCaller]
        /\ ddlIssued = 0
        /\ ddlFailed = 0
        /\ started = 0

NextBind ==
    \E name \in BaseNames, value \in Values : StoreBinding(name, value)

SpecBind == InitBind /\ [][NextBind]_vars

\* ---------------------------------------------------------------- claims
\* frame t holds a call that returned to its caller in this step
Returned(t) == frames'[t].st = "done" /\ frames'[t] # frames[t]

SameObject(c) == cursors[c].exists /\ cursors'[c].id = cursors[c].id

\* C1: once a cursor is closed it stays closed and no prepare, execute or
\* batch request is sent to the store for it any more, also not by a
\* fetchBatch() that was suspended when the cursor became closed.
C1_NoStoreCallAfterClose ==
    [][\A c \in CursorIds :
          (SameObject(c) /\ cursors[c].isClosed) =>
              /\ cursors'[c].isClosed
              /\ cursors'[c].calls = cursors[c].calls]_vars

\* C2: with a single consumer and a store that still has rows to deliver,
\* next() returns null and hasNext() returns false only when the cursor is
\* closed and its buffer is empty.
C2_EndOnlyWhenClosed ==
    [][\A t \in TaskIds :
          (/\ Returned(t)
           /\ frames'[t].op \in {"next", "hasNext"}
           /\ frames'[t].res \in {"null", "false"}
           /\ ~cursors'[frames'[t].cur].shared
           /\ source'[frames'[t].cur].sent < source'[frames'[t].cur].total) =>
              /\ cursors'[frames'[t].cur].isClosed
              /\ cursors'[frames'[t].cur].documents = <<>>]_vars

StoreFailures == {"prepare", "execute", "batch"}

\* a finished toArray() that was the only operation on its cursor
FreshToArray(t) ==
    /\ frames[t].st = "done"
    /\ frames[t].op = "toArray"
    /\ cursors[frames[t].cur].ops = 1

\* C3: toArray() on a fresh cursor with cap K, no store call failing: when
\* the store holds K+1 documents it fails with the result-limit error, when
\* it holds exactly K it returns those K documents in the store's order,
\* however the result is split into batches.
C3_ToArrayCap ==
    \A t \in TaskIds :
        (FreshToArray(t) /\ frames[t].cause \notin StoreFailures) =>
            LET cr == cursors[frames[t].cur]
                total == source[frames[t].cur].total
            IN  /\ total = cr.maxLimit + 1 =>
                      frames[t].res = "throw" /\ frames[t].cause = "limit"
                /\ total = cr.maxLimit =>
                      /\ frames[t].res = "array"
                      /\ frames[t].arr = Range(1, cr.maxLimit)

C3_Witness ==
    \E t \in TaskIds :
        /\ FreshToArray(t)
        /\ cursors[frames[t].cur].maxLimit = 2
        /\ source[frames[t].cur].total = 2
        /\ source[frames[t].cur].empties = 1
        /\ frames[t].res = "array"
        /\ frames[t].arr = <<1, 2>>

\* C4: the documents a cursor has handed to its callers, over all pulls,
\* never number more than its maxLimit.
C4_DeliveredWithinCap ==
    \A c \in CursorIds :
        cursors[c].exists => cursors[c].delivered <= cursors[c].maxLimit

\* C5: when a pull fails because opening the batch iterator or fetching a
\* batch failed, the prepared-statement cache is empty when the error
\* reaches the caller.
C5_CacheEmptyOnExecFailure ==
    [][\A t \in TaskIds :
          (/\ Returned(t)
           /\ frames'[t].res = "throw"
           /\ frames'[t].cause \in {"execute", "batch"}) =>
              \A s \in Statements : prepStmtCache'[s] = NoHandle]_vars

\* C6: a cursor created after the cache was cleared never gets a cache hit
\* on a handle that was prepared before that clear.
C6_NoStaleHandleAfterClear ==
    \A c \in CursorIds :
        (cursors[c].exists /\ cursors[c].hitAt # NoHandle) =>
            cursors[c].hitAt >= cursors[c].createdAt

\* C7: an operation that returned normally to its caller had no store call
\* fail on its behalf; every such failure makes the operation fail.
C7_NoFailureSwallowed ==
    \A i \in CallerIds :
        (callers[i].pc = "done" /\ callers[i].res = "ok") =>
            ~callers[i].failed

C10_UniqueNamesKeepValues ==
    ~bindings.isNull =>
        \A k \in 1..Len(stored) :
            ~stored[k].threw =>
                /\ \A j \in 1..(k - 1) : stored[j].ret # stored[k].ret
                /\ Get(bindings.entries, stored[k].ret) = stored[k].value

\* ---------------------------------------------------------------- C11..C20
\* seq cut at every chunk sep
RECURSIVE SplitOn(_, _, _)
SplitOn(seq, sep, cur) ==
    IF seq = <<>> THEN <<cur>>
    ELSE IF Head(seq) = sep THEN <<cur>> \o SplitOn(Tail(seq), sep, <<>>)
    ELSE SplitOn(Tail(seq), sep, Append(cur, Head(seq)))

\* term is one equality of the key column col with a variable bound to
\* value in the bindings b
BoundEquality(term, col, value, b) ==
    \E alias \in {T, "t"} :
        LET lhs == <<alias, ".">> \o col \o <<"=">>
        IN  /\ Len(term) > Len(lhs)
            /\ SubSeq(term, 1, Len(lhs)) = lhs
            /\ term[Len(lhs) + 1] = "$"
            /\ Get(b.entries, SubSeq(term, Len(lhs) + 1, Len(term))) = value

\* the key fields an identity value supplies, in key order, with the values
IdentityKeys(id, coll) ==
    IF ~coll.hasCompositeKeys THEN <<[col |-> <<KVID>>, value |-> id.val]>>
    ELSE LET present == SelectSeq(coll.primaryKeyList,
                                  LAMBDA k : HasProp(id, k))
         IN  [k \in 1..Len(present) |->
                 [col |-> present[k], value |-> Prop(id, present[k]).val]]

\* text is WHERE followed by the AND of one bound equality per key of keys
\* and nothing else, parentheses aside
IsWhereOf(text, keys, b) ==
    /\ text # <<>> /\ Head(text) = "WHERE"
    /\ LET body == SelectSeq(Tail(text), LAMBDA c : c \notin {"(", ")"})
           terms == SplitOn(body, "AND", <<>>)
       IN  /\ Len(terms) = Len(keys)
           /\ \A k \in 1..Len(keys) :
                 BoundEquality(terms[k], keys[k].col, keys[k].value, b)

\* a finished _computeWhere call on a filter that holds only an identity
\* of the kind the table has, one key field at least being supplied
IdentityCall ==
    /\ call.fn = "_computeWhere" /\ call.done /\ ~call.isNull
    /\ call.filter \in IdentityFilters
    /\ call.composite <=> Prop(call.filter, P_id).kind = "object"
    /\ IdentityKeys(Prop(call.filter, P_id), Coll(call.composite)) # <<>>

\* C11: a filter that holds only an identity compiles to WHERE with exactly
\* one bound equality against the key column on a simple-key table, and on
\* a composite-key table with the AND of one bound equality for every key
\* field the identity value supplies, whatever that field's value is.
C11_IdentityWhere ==
    IdentityCall =>
        /\ ~call.out.threw
        /\ IsWhereOf(call.out.text,
                     IdentityKeys(Prop(call.filter, P_id),
                                  Coll(call.composite)),
                     call.out.b)

\* how deep inside l...r the text is after each of its chunks
RECURSIVE Depths(_, _, _, _)
Depths(text, l, r, d) ==
    IF text = <<>> THEN <<>>
    ELSE LET d1 == IF Head(text) = l THEN d + 1
                   ELSE IF Head(text) = r THEN d - 1 ELSE d
         IN  <<d1>> \o Depths(Tail(text), l, r, d1)

Balanced(text, l, r) ==
    LET ds == Depths(text, l, r, 0)
    IN  /\ \A k \in 1..Len(ds) : ds[k] >= 0
        /\ ds = <<>> \/ ds[Len(ds)] = 0

\* brackets match, and no list or group starts with a separator
WellFormed(text) ==
    /\ Balanced(text, "(", ")")
    /\ Balanced(text, "[", "]")
    /\ \A k \in 1..(Len(text) - 1) :
          text[k] \in {"(", "WHERE", "[", ","}
              => text[k + 1] \notin {",", "OR", "AND", ")"}

\* the bound values of the list that opens at chunk k (IN, "(")
ListSize(text, k) ==
    LET ends == {j \in (k + 2)..Len(text) : text[j] = ")"}
        end == IF ends = {} THEN Len(text) + 1
               ELSE CHOOSE j \in ends : \A i \in ends : j <= i
    IN  Cardinality({j \in (k + 2)..(end - 1) : text[j] = "$"})

Count(seq, P(_)) == Cardinality({k \in 1..Len(seq) : P(k)})

\* a finished _computeWhere call on { p: { $in: [...] } }, the array
\* holding null
InNullCall ==
    /\ call.fn = "_computeWhere" /\ call.done /\ ~call.isNull
    /\ call.filter \in InFilters
    /\ call.filter.items[1].items[1].prop = P_in
    /\ \E e \in DOMAIN call.filter.items[1].items[1].items :
          call.filter.items[1].items[1].items[e].kind = "null"

\* C12: $in over an array that holds null and N other values compiles to a
\* well-formed disjunction: each of its lists (comparison, array-contains)
\* holds exactly N bound values, there is exactly one NOT EXISTS branch,
\* and with N = 0 there is no list at all.
C12_InWithNull ==
    InNullCall =>
        LET arr == call.filter.items[1].items[1].items
            N == Count(arr, LAMBDA k : arr[k].kind # "null")
            text == call.out.text
            lists == {k \in 1..Len(text) : text[k] = "IN"}
        IN  /\ ~call.out.threw
            /\ WellFormed(text)
            /\ Cardinality(lists) = IF N > 0 THEN 2 ELSE 0
            /\ \A k \in lists : ListSize(text, k) = N
            /\ Count(text, LAMBDA k : /\ k < Len(text)
                                      /\ text[k] = "NOT"
                                      /\ text[k + 1] = "EXISTS") = 1

\* a filter that is no object, or has a top-level $-operator that is not
\* known, or gives $or, $and or $nor something that is no array
InvalidFilter(f) ==
    \/ f.kind = "scalar"
    \/ /\ f.kind = "object"
       /\ \E k \in 1..Len(f.items) :
             LET e == f.items[k]
             IN  /\ e.prop # <<>> /\ Head(e.prop) = "$"
                 /\ \/ e.prop \notin {P_or, P_and, P_not, P_nor}
                    \/ e.prop \in {P_or, P_and, P_nor} /\ e.kind # "array"

\* C13: compiling a structurally invalid filter (no object, an unknown
\* top-level $-operator, no array under $or, $and or $nor) throws an error
\* and yields no predicate text.
C13_InvalidFilterThrows ==
    (call.fn = "_computeWhere" /\ call.done /\ InvalidFilter(call.filter))
        => call.out.threw /\ call.out.text = <<>>

\* C14: for simple and for composite keys, a document marshalled into a row
\* and read back from that row equals the original in its identity and in
\* every field, nested dates, arrays and objects included.
C14_RoundTrip ==
    (call.fn = "roundTrip" /\ call.done) =>
        /\ call.out.kind = "object"
        /\ \A k \in 1..Len(call.doc.items) :
              Prop(call.out, call.doc.items[k].prop) = call.doc.items[k]

\* a finished _computeUpdateClause call on { $op: { p: v } }
OneFieldUpdate(op) ==
    /\ call.fn = "_computeUpdateClause" /\ call.done
    /\ Len(call.update.items) = 1
    /\ call.update.items[1].prop = op
    /\ call.update.items[1].kind = "object"

\* the SQL literal that denotes exactly the value v
ExactLiteral(v) == IF v.kind = "null" THEN <<"NULL">> ELSE <<v.val>>

\* C16: for every path p and value v, 0, false and '' included, $inc
\* compiles to SET p = p + literal(v), $mul to SET p = p * literal(v) and
\* $set stores literal(v), literal(v) being NULL only for null.
C16_UpdateLiterals ==
    \A op \in {P_inc, P_mul, P_set} :
        OneFieldUpdate(op) =>
            LET f == call.update.items[1].items[1]
                p == computeDbProp(f.prop, Coll(call.composite))
                lit == ExactLiteral(f)
            IN  /\ ~call.out.threw
                /\ call.out.text =
                      IF op = P_inc
                      THEN <<"SET">> \o p \o <<"=">> \o p \o <<"+">> \o lit
                      ELSE IF op = P_mul
                      THEN <<"SET">> \o p \o <<"=">> \o p \o <<"*">> \o lit
                      ELSE <<"PUT", T>>
                           \o computeUpdateSetPutProp(f.prop, lit)

\* the entries of a projection spec other than _id
PrjFields(p) == SelectSeq(p.items, LAMBDA e : e.prop # P_id)

\* some field is excluded and some other is included, by 1, by true or by
\* an expression
MixedProjection(p) ==
    /\ \E k \in 1..Len(PrjFields(p)) : IsZero(PrjFields(p)[k])
    /\ \E k \in 1..Len(PrjFields(p)) : ~IsZero(PrjFields(p)[k])

ConflictErrors ==
    {"Projection cannot be both inclusive and exclusive",
     "Projection cannot be both exclusive and inclusive"}

\* C20: a projection spec that includes some fields and excludes others,
\* _id aside, is rejected with a projection-conflict error in either key
\* order and also when the including entry is an expression; a spec whose
\* fields are all included or all excluded is accepted whatever its _id
\* entry is.
C20_MixedProjectionRejected ==
    (call.fn = "_conputeProjection" /\ call.done
     /\ call.projection.kind = "object") =>
        IF MixedProjection(call.projection)
        THEN call.out.threw /\ call.out.err \in ConflictErrors
        ELSE call.out.err \notin ConflictErrors

\* an index key with a wildcard, a value that is the number 1, a value that
\* compares equal to 1
HasWildcard(e) ==
    \E k \in 1..Len(e.prop) : e.prop[k] \in {"*", "$"}
IsNumberOne(e) == e.kind = "scalar" /\ e.val = "1"
LooselyOne(e) == e.kind = "scalar" /\ e.val \in {"1", "true", "\"1\""}
Rejected(cl, err) ==
    cl.pc = "done" /\ cl.res = "throw" /\ cl.err = err /\ ~cl.sent

\* C18: createIndex fails with the wildcard error when any key of the index
\* spec contains '*' or '$', and with the path-values error when any key's
\* value is not 1; in both cases it sends no DDL to the store.
C18_CreateIndexRejects ==
    \A i \in CallerIds :
        callers[i].op = "createIndex" =>
            LET items == callers[i].keys.items
            IN  /\ (\E k \in 1..Len(items) : HasWildcard(items[k])) =>
                      Rejected(callers[i], "wildcard")
                /\ (\E k \in 1..Len(items) : ~IsNumberOne(items[k])) =>
                      Rejected(callers[i], "pathValue")

\* C18, amended: createIndex takes the keys in order and fails at the first
\* one it does not accept: with the wildcard error if that key contains '*'
\* or '$', else with the path-values error if its value does not compare
\* equal to 1 (true and '1' do), else because the schema does not know the
\* path; it has sent no call to the store then.  A spec all of whose keys
\* are accepted is not rejected.
C18_FirstRejectedKeyDecides ==
    \A i \in CallerIds :
        callers[i].op = "createIndex" =>
            LET items == callers[i].keys.items
                bad(k) == \/ HasWildcard(items[k])
                          \/ ~LooselyOne(items[k])
                          \/ items[k].prop \notin SchemaPaths
                first == CHOOSE k \in 1..Len(items) :
                            bad(k) /\ \A j \in 1..(k - 1) : ~bad(j)
            IN  IF \E k \in 1..Len(items) : bad(k)
                THEN IF HasWildcard(items[first])
                     THEN Rejected(callers[i], "wildcard")
                     ELSE IF ~LooselyOne(items[first])
                     THEN Rejected(callers[i], "pathValue")
                     ELSE Rejected(callers[i], "noProperty")
                ELSE /\ callers[i].err \notin
                          {"wildcard", "pathValue", "noProperty"}
                     /\ callers[i].sent

\* a spec whose first key has the value 0 and whose second key has a
\* wildcard was rejected for the value
C18_Witness ==
    \E i \in CallerIds :
        /\ callers[i].op = "createIndex"
        /\ Len(callers[i].keys.items) = 2
        /\ ~HasWildcard(callers[i].keys.items[1])
        /\ callers[i].keys.items[1].val = "0"
        /\ HasWildcard(callers[i].keys.items[2])
        /\ Rejected(callers[i], "pathValue")

\* C17: updateOne, updateMany, findOneAndUpdate, findOneAndDelete,
\* replaceOne and deleteOne called with a filter that is absent or has no
\* _id fail with an error and send no call to the store: no table check, no
\* DDL, no statement, no put or delete.
C17_NoIdNoStoreCall ==
    \A i \in CallerIds :
        (/\ callers[i].op \in IdOps
         /\ \/ callers[i].filter.kind = "undefined"
            \/ ~HasProp(callers[i].filter, P_id)) =>
            /\ callers[i].pc = "done" /\ callers[i].res = "throw"
            /\ callers[i].err \in {"noId", "typeError"}
            /\ ~callers[i].sent
            /\ callers[i].chk = "none" /\ callers[i].gt = "none"
            /\ ~callers[i].ddl /\ ~callers[i].failed

\* after an operation that created the table, updateMany with a filter
\* without _id and deleteOne with no filter have thrown
C17_Witness ==
    /\ ddlIssued = 1
    /\ table.state = "active"
    /\ \E i \in CallerIds :
          /\ callers[i].op = "updateMany"
          /\ callers[i].filter = Obj(<<At(<<"p">>, Scalar("5"))>>)
          /\ callers[i].res = "throw" /\ ~callers[i].sent

\* C15: with an update spec that has a top-level key outside the operator
\* set, at any position, updateOne, updateMany and findOneAndUpdate throw
\* an error naming that key before any UPDATE is prepared or executed and
\* before the operation has sent any other call to the store.
C15_UnknownOperatorNoStoreCall ==
    \A i \in CallerIds :
        LET cl == callers[i]
            unknown == {k \in 1..Len(cl.update.items) :
                           cl.update.items[k].prop \notin UpdateOperators}
        IN  (/\ cl.op \in UpdateOps
             /\ HasProp(cl.filter, P_id)
             /\ unknown # {}) =>
                /\ ~cl.sent
                /\ cl.pc \notin {"prepare", "query"}
                /\ cl.pc = "done" =>
                      /\ cl.res = "throw"
                      /\ cl.err = "unknownOperator"
                      /\ \E k \in unknown :
                            cl.errKey = cl.update.items[k].prop

\* C19: insertMany of N documents with pairwise distinct identities that
\* the table does not hold, every put being acknowledged, returns
\* insertedCount = N and the N identities in insertedIds, and the table
\* holds N more rows than before; after deleteMany with no filter returned
\* the table holds no row.
C19_InsertManyDeleteMany ==
    [][/\ (many.st = "running" /\ many'.st = "returned" /\ many.fresh) =>
             /\ many'.insertedCount = Cardinality(many.S)
             /\ many'.insertedIds =
                   [k \in 1..Cardinality(many.S) |->
                       Prop(DocOf(InOrder(many.S)[k]), P_id)]
             /\ Cardinality(rows') = many.before + Cardinality(many.S)
       /\ \A i \in CallerIds :
             (/\ callers[i].op = "deleteMany" /\ callers[i].pc # "done"
              /\ callers'[i].pc = "done" /\ callers'[i].res = "ok") =>
                 rows' = {}]_vars

\* ------------------------------------------------------------ C21 .. C30
\* the awaits of the start sequence of fetchBatch(): prepare, copy, execute
StartPcs == {"prepare", "copy", "open"}

InStart(f) == f.st = "run" /\ f.pc \in StartPcs

\* frame t enters the start sequence of its cursor in this step
EntersStart(t) == InStart(frames'[t]) /\ ~InStart(frames[t])

\* a pull or an iteration begins on cursor c in this step
PullBegins(c) ==
    /\ SameObject(c)
    /\ cursors'[c].ops = cursors[c].ops + 1
    /\ frames' # frames

\* C21: a cursor sends no prepare, execute or batch request before its first
\* pull; over any sequence of pulls the start sequence (resolve the prepared
\* statement, bind, open the batch iterator) is entered exactly once, by the
\* first pull; in it no prepare is sent when the cache holds the statement
\* text, and otherwise one prepare, whose handle is then stored in the cache
\* under that text.
C21_StartSequenceOnce ==
    [][/\ \A c \in CursorIds :
             /\ (cursors[c].exists /\ cursors[c].ops = 0) =>
                   cursors[c].calls = 0 /\ ~cursors[c].isStarted
             /\ (SameObject(c) /\ cursors[c].isStarted) =>
                   cursors'[c].isStarted
             /\ (/\ PullBegins(c)
                 /\ ~cursors[c].isStarted
                 /\ ~cursors[c].isClosed) =>
                   /\ cursors'[c].isStarted
                   /\ \E t \in FrameIds :
                         frames'[t].cur = c /\ EntersStart(t)
       /\ \A t \in FrameIds :
             LET c == frames'[t].cur
                 s == cursors'[c].statement
             IN  /\ EntersStart(t) =>
                       /\ ~cursors[c].isStarted
                       /\ cursors'[c].isStarted
                       /\ frames'[t].pc = "prepare" <=>
                              prepStmtCache[s] = NoHandle
                       /\ \A u \in FrameIds \ {t} : ~EntersStart(u)
                 /\ (/\ InStart(frames[t])
                     /\ InStart(frames'[t])
                     /\ frames'[t] # frames[t]) =>
                       /\ frames'[t].pc # "prepare"
                       /\ frames[t].pc = "prepare" =>
                             /\ frames[t].h # NoHandle
                             /\ prepStmtCache'[s] = frames[t].h]_vars

\* the second cursor of a statement has started on the cached handle, after
\* two operations, and it has opened its batch iterator
C21_Witness ==
    /\ cursors[1].exists
    /\ cursors[1].id = 2
    /\ cursors[1].ops = 2
    /\ cursors[1].isStarted
    /\ cursors[1].gen
    /\ cursors[1].hitAt # NoHandle
    /\ prepStmtCache["q1"] = cursors[1].hitAt

\* frame t holds a finished iteration that was the first operation on its
\* cursor and the only one so far
FirstIteration(t) ==
    /\ frames[t].st = "done"
    /\ frames[t].op = "iterate"
    /\ frames[t].n = 1
    /\ cursors[frames[t].cur].ops = 1

\* C22: an iteration (for await, forEach, map) that consumes a cursor not yet
\* started to the end has yielded every document of the result, in the
\* store's order, when the iterator finishes; the iterator does not finish
\* while the start sequence or a batch request it triggered is in flight.
C22_IterationYieldsAll ==
    \A t \in TaskIds :
        FirstIteration(t) =>
            LET c == frames[t].cur
            IN  /\ ~Running(Detached(c))
                /\ (frames[t].res = "end" /\ frames[t].cause # "break") =>
                      \/ cursors[c].delivered = source[c].total
                      \/ frames[Detached(c)].res = "unhandled"

\* C23: however a consumer leaves the iteration or the drain of a cursor --
\* the result is exhausted, the consumer breaks out of for await or forEach,
\* an error is thrown while iterating, toArray() fails with the result-limit
\* error -- the cursor is closed afterwards.
C23_ClosedOnLeaving ==
    \A t \in TaskIds :
        (/\ frames[t].st = "done"
         /\ \/ frames[t].op = "iterate"
            \/ /\ frames[t].op = "toArray"
               /\ frames[t].cause \notin StoreFailures) =>
            cursors[frames[t].cur].isClosed

\* C26: over any sequence of next(), tryNext(), hasNext() and toArray() calls
\* of one consumer on one cursor every row the store returned is handed to
\* the caller at most once: on a cursor that was not started by an iteration
\* the documents handed out never number more than the rows the store has
\* returned for the cursor.
C26_EachRowAtMostOnce ==
    \A c \in CursorIds :
        (/\ cursors[c].exists
         /\ ~cursors[c].shared
         /\ frames[Detached(c)].st = "idle") =>
            cursors[c].delivered <= source[c].sent

\* frame t hands its handle to queryIterable() in this step
Opens(t) ==
    /\ frames'[t].st = "run"
    /\ frames'[t].pc = "open"
    /\ ~(frames[t].st = "run" /\ frames[t].pc = "open")

Prepared(c) ==
    /\ cursors[c].exists
    /\ cursors[c].isStarted
    /\ cursors[c].hitAt = NoHandle

\* C25: as long as the cache drops no entry (no eviction, no expiry, no
\* clear), prepare is sent to the store at most once for a statement text,
\* also when several cursors with that text start at the same time: no two
\* cursors of one text have both asked the store to prepare it.
C25_PreparedOncePerText ==
    \A c1, c2 \in CursorIds :
        (/\ c1 # c2
         /\ Prepared(c1)
         /\ Prepared(c2)
         /\ clears = 0) =>
            cursors[c1].statement # cursors[c2].statement

\* a finished _computeWhere call on { _id: id, p: 5 }
MixedCall ==
    /\ call.fn = "_computeWhere"
    /\ call.done
    /\ call.filter \in MixedFilters

WriteOps == {"updateOne", "updateMany", "findOneAndUpdate",
             "findOneAndDelete"}

\* caller i has handed its statement to the store
StatementSent(i) ==
    /\ callers[i].op \in WriteOps
    /\ callers[i].pc \in {"prepare", "query"}

\* C28: every UPDATE or DELETE statement that updateOne, updateMany,
\* findOneAndUpdate or findOneAndDelete sends to the store has a WHERE clause
\* that restricts a key column, for simple and composite keys and for every
\* identity that passes the _id check of the operation.
C28_WriteRestrictsKey ==
    \A i \in CallerIds :
        StatementSent(i) =>
            /\ \E k \in DOMAIN callers[i].where :
                  callers[i].where[k] = "WHERE"
            /\ \E k \in DOMAIN callers[i].where :
                  callers[i].where[k] \in {"kvid", "a", "b"}

\* C24: a table check that fails (getTable error other than not-found,
\* invalid composite key, CREATE TABLE failure) leaves the collection not
\* marked created and its key schema as it was before the call; the created
\* flag and the key schema change only when a check succeeds.  A collection
\* starts not created with the simple key schema, and a check that succeeds
\* in changing the key schema marks it created: so whenever no check holds
\* the lock, a collection not marked created has the simple key schema.
C24_FailedCheckKeepsSchema ==
    (lock = 0 /\ ~collection.created) => ~collection.hasCompositeKeys

\* C29: createIndex sends its index DDL only after the table check that the
\* same call started has completed successfully; the index DDL is never
\* with the store while that check, or its CREATE TABLE, is in flight.
C29_IndexDDLAfterCheck ==
    \A i \in CallerIds :
        (callers[i].op = "createIndex" /\ callers[i].pc = "indexDDL") =>
            callers[i].chk = "done" /\ callers[i].chkRes = "ok"

====
